---- MODULE Spec2Model ----
(***************************************************************************)
(* A model of skoolkit's HtmlWriter (src/skoolkit/skoolhtml.py): the       *)
(* snapshot stack, the image-producing part of the #UDGARRAY handler and   *)
(* the macro dispatcher HtmlWriter.expand.                                 *)
(***************************************************************************)
EXTENDS Integers, Sequences, FiniteSets, TLC

VARIABLES
    heap,           \* the byte buffers (Python lists) by object identity
    snapshot,       \* self.snapshot: the identity of the current buffer
    _snapshots,     \* self._snapshots: a list of (buffer identity, name)
    opens,          \* history: contents and name saved by each push still open
    last,           \* history: the last operation and how it ended
    text,           \* expand: the text being expanded
    pc,             \* expand: "call", "loop", "returned" or "raised"
    err,            \* expand: the exception expand raised
    passes,         \* history: the passes of expand's loop so far (saturating)
    input,          \* history: the text expand was called with
    frames,         \* self.frames: frame identifier -> Frame
    files,          \* the image files of the output tree (FileInfo.file_exists)
    replace_images, \* FileInfo.replace_images
    paths,          \* self.paths: path identifier -> directory
    default_image_format, \* self.default_image_format
    tiles,          \* two Udg objects: a tile and the Udg.copy of it
    called          \* history: the methods called on each of the two

snapvars == <<heap, snapshot, _snapshots, opens>>
imgvars == <<frames, files>>
cfgvars == <<replace_images, paths, default_image_format>>
expvars == <<text, pc, err, passes, input>>
tilevars == <<tiles, called>>
vars == <<snapvars, last, imgvars, cfgvars, expvars, tilevars>>

----------------------------------------------------------------------------
(* Bounds of the model *)

\* the deepest stack of snapshots push_snapshot is followed to
MaxDepth == 3

\* the texts expand is called with hold at most MaxItems items
MaxItems == 2

\* the passes of expand's loop that are counted
MaxPasses == 3

\* the widest row, the longest run B - A and the largest repeat count xN of
\* the sampled address specifications
MaxWidth == 3
MaxRun == 3
MaxRepeat == 3

\* the largest scale of the sampled frames
MaxScale == 2

\* the largest number of rotations asked of Udg.rotate
MaxRotate == 5

\* the part of the 64K snapshot the model keeps: addresses 0..MemSize-1
MemSize == 16
Addrs == 0..(MemSize - 1)

\* the addresses and the byte values the sampled pokes use
PokeAddrs == {0, 1}
Bytes == {0, 255}

\* the snapshot names given to push_snapshot
Names == {"a", "b"}

\* the identities of the byte buffers that can be alive together: the
\* current one and one per stack entry
Ids == 0..(MaxDepth + 1)

----------------------------------------------------------------------------
(* Strings: a string is a sequence of characters, a character a TLA+ string *)
(* of one letter (or, in a macro's parameter text, one unparsed span)       *)

UpperSeq == <<"A","B","C","D","E","F","G","H","I","J","K","L","M",
              "N","O","P","Q","R","S","T","U","V","W","X","Y","Z">>
LowerSeq == <<"a","b","c","d","e","f","g","h","i","j","k","l","m",
              "n","o","p","q","r","s","t","u","v","w","x","y","z">>

IsUpper(c) == \E i \in 1..26 : UpperSeq[i] = c
IsLower(c) == \E i \in 1..26 : LowerSeq[i] = c

\* str.lower and str.upper, character by character
LowerChar(c) == IF IsUpper(c) THEN LowerSeq[CHOOSE i \in 1..26 : UpperSeq[i] = c] ELSE c
UpperChar(c) == IF IsLower(c) THEN UpperSeq[CHOOSE i \in 1..26 : LowerSeq[i] = c] ELSE c
ToLower(s) == [i \in 1..Len(s) |-> LowerChar(s[i])]
ToUpper(s) == [i \in 1..Len(s) |-> UpperChar(s[i])]

\* s[-4:]
Last4(s) == IF Len(s) <= 4 THEN s ELSE SubSeq(s, Len(s) - 3, Len(s))

\* the first index of character c in s, 0 when there is none
IndexOf(s, c) ==
    IF \E i \in 1..Len(s) : s[i] = c
    THEN CHOOSE i \in 1..Len(s) : s[i] = c /\ \A j \in 1..(i - 1) : s[j] # c
    ELSE 0

\* str.partition(c): (head, sep, tail)
Partition(s, c) ==
    LET i == IndexOf(s, c) IN
    IF i = 0 THEN <<s, <<>>, <<>>>>
    ELSE <<SubSeq(s, 1, i - 1), <<c>>, SubSeq(s, i + 1, Len(s))>>

\* whether sub occurs in s as a run of consecutive characters
Contains(s, sub) ==
    \E i \in 0..(Len(s) - Len(sub)) : SubSeq(s, i + 1, i + Len(sub)) = sub

\* None, and the empty string where the code only tests truthiness
None == <<>>

----------------------------------------------------------------------------
(* Tiles (class Udg) and arrays of tiles *)

\* a table that leaves every byte as it is
FLIPIdentity == [i \in 1..256 |-> i - 1]

\* Byte flip table, FLIP[i] of the code is FLIP[i + 1] here
FLIP == <<
    0, 128, 64, 192, 32, 160, 96, 224, 16, 144, 80, 208, 48, 176, 112, 240,
    8, 136, 72, 200, 40, 168, 104, 232, 24, 152, 88, 216, 56, 184, 120, 248,
    4, 132, 68, 196, 36, 164, 100, 228, 20, 148, 84, 212, 52, 180, 116, 244,
    12, 140, 76, 204, 44, 172, 108, 236, 28, 156, 92, 220, 60, 188, 124, 252,
    2, 130, 66, 194, 34, 162, 98, 226, 18, 146, 82, 210, 50, 178, 114, 242,
    10, 138, 74, 202, 42, 170, 106, 234, 26, 154, 90, 218, 58, 186, 122, 250,
    6, 134, 70, 198, 38, 166, 102, 230, 22, 150, 86, 214, 54, 182, 118, 246,
    14, 142, 78, 206, 46, 174, 110, 238, 30, 158, 94, 222, 62, 190, 126, 254,
    1, 129, 65, 193, 33, 161, 97, 225, 17, 145, 81, 209, 49, 177, 113, 241,
    9, 137, 73, 201, 41, 169, 105, 233, 25, 153, 89, 217, 57, 185, 121, 249,
    5, 133, 69, 197, 37, 165, 101, 229, 21, 149, 85, 213, 53, 181, 117, 245,
    13, 141, 77, 205, 45, 173, 109, 237, 29, 157, 93, 221, 61, 189, 125, 253,
    3, 131, 67, 195, 35, 163, 99, 227, 19, 147, 83, 211, 51, 179, 115, 243,
    11, 139, 75, 203, 43, 171, 107, 235, 27, 155, 91, 219, 59, 187, 123, 251,
    7, 135, 71, 199, 39, 167, 103, 231, 23, 151, 87, 215, 55, 183, 119, 247,
    15, 143, 79, 207, 47, 175, 111, 239, 31, 159, 95, 223, 63, 191, 127, 255>>

\* byte & b for a power of two b
BitSet(byte, b) == (byte \div b) % 2 = 1

\* Udg.__init__; a tile without a mask has mask None
Udg(attr, data, mask) == [attr |-> attr, data |-> data, mask |-> mask]

Reverse(s) == [i \in 1..Len(s) |-> s[Len(s) + 1 - i]]

\* the inner loop shifting the other way: rbyte = rbyte * 2 + (1 if the bit is set)
RECURSIVE RByteLeft(_, _, _)
RByteLeft(tile_data, b, n) ==
    IF n = 0 THEN 0
    ELSE ((RByteLeft(tile_data, b, n - 1) * 2) % 256)
         + (IF BitSet(tile_data[n], b) THEN 1 ELSE 0)

\* Udg._rotate_tile, the inner loop: rbyte after bytes 1..n of tile_data
RECURSIVE RByte(_, _, _)
RByte(tile_data, b, n) ==
    IF n = 0 THEN 0
    ELSE (RByte(tile_data, b, n - 1) \div 2)
         + (IF BitSet(tile_data[n], b) THEN 128 ELSE 0)

\* 2^k
RECURSIVE Pow2(_)
Pow2(k) == IF k = 0 THEN 1 ELSE 2 * Pow2(k - 1)

\* the rotation without its closing rotated.reverse()
_rotate_tileUnreversed(tile_data) ==
    [k \in 1..8 |-> RByte(tile_data, Pow2(k - 1), Len(tile_data))]

\* Udg._rotate_tile: one byte per b = 1, 2, ..., 128, then reversed
_rotate_tile(tile_data) ==
    Reverse([k \in 1..8 |-> RByte(tile_data, Pow2(k - 1), Len(tile_data))])

\* a flip whose vertical part moves the first row to the end instead of
\* reversing the rows
FlipBytesShifted(bytes, flip) ==
    LET h == IF flip % 2 = 1 THEN [i \in 1..Len(bytes) |-> FLIP[bytes[i] + 1]] ELSE bytes
    IN IF (flip \div 2) % 2 = 1 THEN Tail(h) \o <<Head(h)>> ELSE h

\* Udg.flip
FlipBytes(bytes, flip) ==
    LET h == IF flip % 2 = 1 THEN [i \in 1..Len(bytes) |-> FLIP[bytes[i] + 1]] ELSE bytes
    IN IF (flip \div 2) % 2 = 1 THEN Reverse(h) ELSE h

UdgFlip(udg, flip) ==
    [udg EXCEPT !.data = FlipBytes(udg.data, flip),
                !.mask = IF udg.mask # None THEN FlipBytes(udg.mask, flip) ELSE udg.mask]

Min3(n) == IF n < 3 THEN n ELSE 3

\* Udg.rotate: rotate & 3 single rotations
RECURSIVE RotateBytes(_, _)
RotateBytes(bytes, n) ==
    IF n = 0 THEN bytes ELSE RotateBytes(_rotate_tile(bytes), n - 1)

\* a rotate that caps the count at 3 instead of masking it with 3
UdgRotateCapped(udg, rotate) ==
    [udg EXCEPT !.data = RotateBytes(udg.data, Min3(rotate)),
                !.mask = IF udg.mask # None THEN RotateBytes(udg.mask, Min3(rotate))
                         ELSE udg.mask]

UdgRotate(udg, rotate) ==
    [udg EXCEPT !.data = RotateBytes(udg.data, rotate % 4),
                !.mask = IF udg.mask # None THEN RotateBytes(udg.mask, rotate % 4)
                         ELSE udg.mask]

\* HtmlWriter.flip_udgs
flip_udgs(udgs, flip) ==
    LET t == [r \in 1..Len(udgs) |->
                 [c \in 1..Len(udgs[r]) |-> UdgFlip(udgs[r][c], flip)]]
        h == IF flip % 2 = 1 THEN [r \in 1..Len(t) |-> Reverse(t[r])] ELSE t
    IN IF (flip \div 2) % 2 = 1 THEN Reverse(h) ELSE h

\* a rotation that turns every tile and leaves the tiles where they are
rotate_udgsInPlace(udgs, rotate) ==
    [r \in 1..Len(udgs) |->
        [c \in 1..Len(udgs[r]) |-> UdgRotate(udgs[r][c], rotate)]]

\* HtmlWriter.rotate_udgs
rotate_udgs(udgs, rotate) ==
    LET t == [r \in 1..Len(udgs) |->
                 [c \in 1..Len(udgs[r]) |-> UdgRotate(udgs[r][c], rotate)]]
        R == Len(t)
        C == Len(t[1])
    IN CASE rotate % 4 = 1 -> [i \in 1..C |-> [j \in 1..R |-> t[R + 1 - j][i]]]
         [] rotate % 4 = 2 -> Reverse([r \in 1..R |-> Reverse(t[r])])
         [] rotate % 4 = 3 -> [i \in 1..C |-> [j \in 1..R |-> t[j][C + 1 - i]]]
         [] OTHER -> t

----------------------------------------------------------------------------
(* Frames, image paths and the image files *)

Min(a, b) == IF a <= b THEN a ELSE b

\* a Frame whose width and height are not limited to what is right of x and
\* below y
FrameUnclamped(udgs, scale, mask, x, y, width, height, delay) ==
    LET full_width == 8 * Len(udgs[1]) * scale
        full_height == 8 * Len(udgs) * scale
    IN [udgs |-> udgs, scale |-> scale, mask |-> mask, x |-> x, y |-> y,
        full_width |-> full_width, full_height |-> full_height,
        width |-> IF width # 0 THEN width ELSE full_width,
        height |-> IF height # 0 THEN height ELSE full_height,
        delay |-> delay, trans |-> 0]

\* Frame.__init__; width and height None are 0 here ("width or full_width")
Frame(udgs, scale, mask, x, y, width, height, delay) ==
    LET full_width == 8 * Len(udgs[1]) * scale
        full_height == 8 * Len(udgs) * scale
    IN [udgs |-> udgs, scale |-> scale, mask |-> mask, x |-> x, y |-> y,
        full_width |-> full_width, full_height |-> full_height,
        width |-> Min(IF width # 0 THEN width ELSE full_width, full_width - x),
        height |-> Min(IF height # 0 THEN height ELSE full_height, full_height - y),
        delay |-> delay, trans |-> 0]

\* Frame.cropped
Cropped(frame) ==
    frame.width # frame.full_width \/ frame.height # frame.full_height

\* the default of Frame.__init__'s delay parameter
DefaultFrameDelay == 32

PNG == <<".", "p", "n", "g">>
GIF == <<".", "g", "i", "f">>

\* HtmlWriter._get_image_format: the format, or the error it raises
_get_image_format(image_path) ==
    LET img_file_ext == Last4(ToLower(image_path)) IN
    IF img_file_ext = PNG THEN "png"
    ELSE IF img_file_ext = GIF THEN "gif"
    ELSE "SkoolKitError"

\* join(*path_components) for two components
join(a, b) ==
    LET keep(c) == \E i \in 1..Len(c) : c[i] # "/" IN
    IF keep(a) /\ keep(b) THEN a \o <<"/">> \o b
    ELSE IF keep(a) THEN a
    ELSE IF keep(b) THEN b
    ELSE <<>>

\* a suffix that is appended to every name
SuffixAlways(fname) == <<".">> \o default_image_format

\* the suffix image_path appends to fname
Suffix(fname) ==
    IF ToLower(Last4(fname)) \in {PNG, GIF} THEN <<>>
    ELSE <<".">> \o default_image_format

\* HtmlWriter.image_path: [exc, path, msg]; path None when fname is blank
image_path(fname, path_id) ==
    IF fname = <<>> THEN [exc |-> "none", path |-> None, msg |-> <<>>]
    ELSE IF fname[1] = "/"
    THEN [exc |-> "none", path |-> SubSeq(fname, 2, Len(fname)) \o Suffix(fname),
          msg |-> <<>>]
    ELSE IF path_id \in DOMAIN paths
    THEN [exc |-> "none", path |-> join(paths[path_id], fname \o Suffix(fname)),
          msg |-> <<>>]
    ELSE [exc |-> "SkoolKitError", path |-> None,
          msg |-> <<"Unknown path ID '", path_id, "' for image file '">> \o fname
                  \o <<"'">>]

FileNeedImageNoForce(replace, exists) == ~exists

\* FileInfo.need_image: self.replace_images or not self.file_exists(image_path)
FileNeedImage(replace, exists) == replace \/ ~exists

\* HtmlWriter.need_image
need_image(img_path) == FileNeedImage(replace_images, img_path \in files)

\* HtmlWriter.write_animated_image on the files fs: the format is checked,
\* the file is opened for writing (it exists from then on), the encoder
\* (ImageWriter.write_image) is called once with the frames
write_animated_image(fs, img_path, frms) ==
    IF _get_image_format(img_path) = "SkoolKitError"
    THEN [exc |-> "SkoolKitError",
          msg |-> <<"Unsupported image file format: ">> \o img_path,
          files |-> fs, calls |-> 0, sent |-> <<>>]
    ELSE [exc |-> "none", msg |-> <<>>, files |-> fs \cup {img_path},
          calls |-> 1, sent |-> frms]

\* os.path.basename
Basename(path) ==
    LET slashes == {i \in 1..Len(path) : path[i] = "/"} IN
    IF slashes = {} THEN path
    ELSE SubSeq(path, (CHOOSE i \in slashes : \A j \in slashes : j <= i) + 1, Len(path))

\* FileInfo.relpath(cwd, target) = posixpath.relpath(target, cwd), for a
\* target outside cwd: one "../" per component of cwd, then the target
RECURSIVE Ups(_)
Ups(n) == IF n = 0 THEN <<>> ELSE <<".", ".", "/">> \o Ups(n - 1)

relpath(cwd, target) ==
    IF cwd = <<>> THEN target
    ELSE Ups(1 + Cardinality({i \in 1..Len(cwd) : cwd[i] = "/"})) \o target

\* HtmlWriter.img_element with alt=None, through the 'img' template
img_element(cwd, path) ==
    <<"<img alt=\"">> \o SubSeq(Basename(path), 1, Len(Basename(path)) - 4)
    \o <<"\" src=\"">> \o relpath(cwd, path) \o <<"\" />">>

----------------------------------------------------------------------------
(* The #UDGARRAY macro *)

\* the decimal digits, and get_int_param on a decimal string: the integer,
\* or ValueError when the string is empty or holds another character
Digits == <<"0", "1", "2", "3", "4", "5", "6", "7", "8", "9">>
IsDigit(c) == \E i \in 1..10 : Digits[i] = c
DigitVal(c) == (CHOOSE i \in 1..10 : Digits[i] = c) - 1

RECURSIVE DecimalValue(_)
DecimalValue(s) ==
    IF s = <<>> THEN 0
    ELSE 10 * DecimalValue(SubSeq(s, 1, Len(s) - 1)) + DigitVal(s[Len(s)])

get_int_param(s) ==
    IF s # <<>> /\ \A i \in 1..Len(s) : IsDigit(s[i])
    THEN [exc |-> "none", value |-> DecimalValue(s)]
    ELSE [exc |-> "ValueError", value |-> 0]

\* str(n) for n >= 0
RECURSIVE Decimal(_)
Decimal(n) ==
    IF n < 10 THEN <<Digits[n + 1]>>
    ELSE Decimal(n \div 10) \o <<Digits[(n % 10) + 1]>>

\* s.split(sep, maxsplit): the pieces between the first maxsplit separators
RECURSIVE Split(_, _, _)
Split(s, sep, maxsplit) ==
    IF maxsplit = 0 \/ IndexOf(s, sep) = 0 THEN <<s>>
    ELSE <<SubSeq(s, 1, IndexOf(s, sep) - 1)>>
         \o Split(SubSeq(s, IndexOf(s, sep) + 1, Len(s)), sep, maxsplit - 1)

\* HtmlWriter._get_udg_addresses, from the text of an address specification
\* to its integers: the split at 'x', the split at '-', get_int_param
ParseAddrSpec(addr_spec) ==
    LET has_x == IndexOf(addr_spec, "x") # 0
        parts == Split(addr_spec, "x", 1)
        addr == IF has_x THEN parts[1] ELSE addr_spec
        num == IF has_x THEN get_int_param(parts[2])
               ELSE [exc |-> "none", value |-> 1]
        pieces == Split(addr, "-", 3)
        elements == [i \in 1..Len(pieces) |-> get_int_param(pieces[i])]
        invalid == [exc |-> "MacroParsingError",
                    msg |-> <<"Invalid address range specification: ">> \o addr_spec,
                    elements |-> <<>>, num |-> 0]
    IN IF num.exc # "none" THEN invalid
       ELSE IF \E i \in 1..Len(pieces) : elements[i].exc # "none" THEN invalid
       ELSE [exc |-> "none", msg |-> <<>>,
             elements |-> [i \in 1..Len(pieces) |-> elements[i].value],
             num |-> num.value]

\* a loop that stops before the end address
RECURSIVE AddressLoopExclusive(_, _, _, _, _, _)
AddressLoopExclusive(address, end_address, h_step, v_step, width, addresses) ==
    IF address < end_address
    THEN LET added == Append(addresses, address) IN
         AddressLoopExclusive(IF Len(added) % width # 0 THEN address + h_step
                              ELSE address + v_step - (width - 1) * h_step,
                              end_address, h_step, v_step, width, added)
    ELSE addresses

\* HtmlWriter._get_udg_addresses, the while loop
RECURSIVE AddressLoop(_, _, _, _, _, _)
AddressLoop(address, end_address, h_step, v_step, width, addresses) ==
    IF address <= end_address
    THEN LET added == Append(addresses, address) IN
         AddressLoop(IF Len(added) % width # 0 THEN address + h_step
                     ELSE address + v_step - (width - 1) * h_step,
                     end_address, h_step, v_step, width, added)
    ELSE addresses

RECURSIVE Repeat(_, _)
Repeat(s, num) == IF num <= 0 THEN <<>> ELSE s \o Repeat(s, num - 1)

\* a vertical step that defaults to 1
UnitVStep(h_step, width) == 1

\* elements.append(elements[2] * width)
DefaultVStep(h_step, width) == h_step * width

\* HtmlWriter._get_udg_addresses for an address specification A[-B[-H[-V]]][xN]
\* already split into its integers: [elements, num]
_get_udg_addresses(addr_spec, width) ==
    LET e1 == addr_spec.elements
        e2 == IF Len(e1) < 2 THEN Append(e1, e1[1]) ELSE e1
        e3 == IF Len(e2) < 3 THEN Append(e2, 1) ELSE e2
        e4 == IF Len(e3) < 4 THEN Append(e3, DefaultVStep(e3[3], width)) ELSE e3
    IN Repeat(AddressLoop(e4[1], e4[2], e4[3], e4[4], width, <<>>), addr_spec.num)

\* the rows a tile is read from: range(8)
TileBytes(snap, u, step, inc) == [n \in 1..8 |-> (snap[u + (n - 1) * step] + inc) % 256]
MaskBytes(snap, m, mask_step) == [n \in 1..8 |-> snap[m + (n - 1) * mask_step]]

\* expand_udgarray: a tile starts a new row when the last row holds width tiles
AppendUdg(udg_array, udg, width) ==
    IF Len(udg_array[Len(udg_array)]) = width
    THEN Append(udg_array, <<udg>>)
    ELSE [udg_array EXCEPT ![Len(udg_array)] = Append(@, udg)]

\* expand_udgarray, the for loop over zip(udg_addresses, mask_addresses)
RECURSIVE AddTiles(_, _, _, _, _, _, _)
AddTiles(udg_array, snap, clause, udg_addresses, mask_addresses, width, k) ==
    IF k > Len(udg_addresses) THEN udg_array
    ELSE LET data == TileBytes(snap, udg_addresses[k], clause.step, clause.inc)
             mask == IF k <= Len(mask_addresses)
                     THEN MaskBytes(snap, mask_addresses[k], clause.mask_step)
                     ELSE None
         IN AddTiles(AppendUdg(udg_array, Udg(clause.attr, data, mask), width),
                     snap, clause, udg_addresses, mask_addresses, width, k + 1)

\* the indexes of self.snapshot that the tiles of the clauses are read from
ReadIndexes(clauses, width) ==
    UNION {LET udg_addresses == _get_udg_addresses(clauses[k].address, width)
               mask_addresses == IF clauses[k].has_mask
                                 THEN _get_udg_addresses(clauses[k].mask_addr, width)
                                 ELSE <<>>
           IN {udg_addresses[i] + n * clauses[k].step :
                   i \in 1..Len(udg_addresses), n \in 0..7}
              \cup {mask_addresses[i] + n * clauses[k].mask_step :
                   i \in 1..Min(Len(udg_addresses), Len(mask_addresses)), n \in 0..7}
           : k \in 1..Len(clauses)}

\* has_masks after a clause: it is assigned anew by every clause
HasMasks(before, mask_addresses) == Len(mask_addresses) > 0

\* expand_udgarray, the while loop over the source clauses: [udgs, has_masks]
RECURSIVE BuildUdgArray(_, _, _, _, _, _)
BuildUdgArray(udg_array, has_masks, snap, clauses, width, k) ==
    IF k > Len(clauses) THEN [udgs |-> udg_array, has_masks |-> has_masks]
    ELSE LET clause == clauses[k]
             udg_addresses == _get_udg_addresses(clause.address, width)
             mask_addresses == IF clause.has_mask
                               THEN _get_udg_addresses(clause.mask_addr, width)
                               ELSE <<>>
         IN BuildUdgArray(
                AddTiles(udg_array, snap, clause, udg_addresses, mask_addresses,
                         width, 1),
                HasMasks(has_masks, mask_addresses), snap, clauses, width, k + 1)

----------------------------------------------------------------------------
(* The parameters of the sampled #UDGARRAY invocations.  The text of an     *)
(* invocation's parameters is one character of the text; skoolmacro's       *)
(* parsers turn it into values.                                             *)

UDGImagePath == "UDGImagePath"
ImagesUdgs == <<"i", "m", "a", "g", "e", "s", "/", "u", "d", "g", "s">>

Range(a) == [elements |-> <<a>>, num |-> 1]
NoRange == [elements |-> <<0>>, num |-> 0]
Clause(addr_spec, has_mask, mask_spec) ==
    [address |-> addr_spec, attr |-> 56, step |-> 1, inc |-> 0,
     has_mask |-> has_mask, mask_addr |-> mask_spec, mask_step |-> 1]
Direct(width, flip, rotate, mask, clauses, fname) ==
    [width |-> width, attr |-> 56, scale |-> 2, step |-> 1, inc |-> 0,
     flip |-> flip, rotate |-> rotate, mask |-> mask, clauses |-> clauses,
     crop |-> <<0, 0, 0, 0>>, fname |-> fname]

DirectSpans == {"1;0(a)", "1;0(a*f)", "1;8(*f)", "1,,,,,,,2;0:8(b.gif*)",
                "2,,,,,1,1;0-1(/c)", "1;0", "1;0(*)", "1;65536(a)"}

\* HtmlWriter.parse_image_params (skoolmacro.parse_params, get_params) on
\* #UDGARRAYwidth[,attr,scale,step,inc,flip,rotate,mask];addr...(fname).
\* The snapshot has MemSize bytes here where the program's has 65536, so
\* the address 65536, the first one past the end, is MemSize here.
ParseUdgarray(span) ==
    CASE span = "1;0(a)" -> Direct(1, 0, 0, 1, <<Clause(Range(0), FALSE, NoRange)>>, <<"a">>)
      [] span = "1;0(a*f)" ->
            Direct(1, 0, 0, 1, <<Clause(Range(0), FALSE, NoRange)>>, <<"a", "*", "f">>)
      [] span = "1;8(*f)" ->
            Direct(1, 0, 0, 1, <<Clause(Range(8), FALSE, NoRange)>>, <<"*", "f">>)
      [] span = "1,,,,,,,2;0:8(b.gif*)" ->
            Direct(1, 0, 0, 2, <<Clause(Range(0), TRUE, Range(8))>>,
                   <<"b", ".", "g", "i", "f", "*">>)
      [] span = "2,,,,,1,1;0-1(/c)" ->
            Direct(2, 1, 1, 1,
                   <<Clause([elements |-> <<0, 1>>, num |-> 1], FALSE, NoRange)>>,
                   <<"/", "c">>)
      [] span = "1;0" -> Direct(1, 0, 0, 1, <<Clause(Range(0), FALSE, NoRange)>>, <<>>)
      [] span = "1;0(*)" ->
            Direct(1, 0, 0, 1, <<Clause(Range(0), FALSE, NoRange)>>, <<"*">>)
      [] span = "1;65536(a)" ->
            Direct(1, 0, 0, 1, <<Clause(Range(MemSize), FALSE, NoRange)>>, <<"a">>)

\* one frame parameter: the identifier, whether a delay follows it, the
\* delay's text and parse_int of it (delay_ok FALSE when that is None)
FrameClause(frame_id, has_delay, delay_text, delay_ok, delay) ==
    [frame_id |-> frame_id, has_delay |-> has_delay, delay_text |-> delay_text,
     delay_ok |-> delay_ok, delay |-> delay]

FramesSpans == {"*f(n)", "*f,5;f(n)", "*f,5;f,7(n)", "*f;b.gif,7(n)", "*(n)", "*f",
                "*f,z(n)"}

\* skoolmacro.parse_params(text, index, except_chars=' (') on
\* #UDGARRAY*frame1[,delay1];frame2[,delay2];...(fname), the frame
\* parameters split at ';' and at the last ','
ParseFrames(span) ==
    CASE span = "*f(n)" ->
            [clauses |-> <<FrameClause(<<"f">>, FALSE, "", TRUE, 0)>>, fname |-> <<"n">>]
      [] span = "*f,5;f(n)" ->
            [clauses |-> <<FrameClause(<<"f">>, TRUE, "5", TRUE, 5),
                           FrameClause(<<"f">>, FALSE, "", TRUE, 0)>>, fname |-> <<"n">>]
      [] span = "*f,5;f,7(n)" ->
            [clauses |-> <<FrameClause(<<"f">>, TRUE, "5", TRUE, 5),
                           FrameClause(<<"f">>, TRUE, "7", TRUE, 7)>>, fname |-> <<"n">>]
      [] span = "*f;b.gif,7(n)" ->
            [clauses |-> <<FrameClause(<<"f">>, FALSE, "", TRUE, 0),
                           FrameClause(<<"b", ".", "g", "i", "f">>, TRUE, "7", TRUE, 7)>>,
             fname |-> <<"n">>]
      [] span = "*(n)" ->
            [clauses |-> <<FrameClause(<<>>, FALSE, "", TRUE, 0)>>, fname |-> <<"n">>]
      [] span = "*f" ->
            [clauses |-> <<FrameClause(<<"f">>, FALSE, "", TRUE, 0)>>, fname |-> <<>>]
      [] span = "*f,z(n)" ->
            [clauses |-> <<FrameClause(<<"f">>, TRUE, "z", FALSE, 0)>>, fname |-> <<"n">>]

----------------------------------------------------------------------------
(* The snapshot stack *)

NoOp == [op |-> "none", exc |-> "none"]

\* the buffers that self.snapshot or an entry of self._snapshots refers to
Live(snap, stack) == {snap} \cup {stack[i][1] : i \in 1..Len(stack)}

\* a buffer that nothing refers to reads as zeros (it is garbage)
Zero == [a \in Addrs |-> 0]

\* self.parser.snapshot: the memory the skool file describes (a sample)
ParserSnapshot == [a \in Addrs |-> (a * 37 + 5) % 256]

Collect(h, snap, stack) ==
    [i \in Ids |-> IF i \in Live(snap, stack) THEN h[i] ELSE Zero]

\* list.__getitem__ slice copy, self.snapshot[:]: a new list object
NewId(snap, stack) == CHOOSE i \in Ids \ Live(snap, stack) :
                         \A j \in Ids \ Live(snap, stack) : i <= j

\* HtmlWriter.get_snapshot_name: self._snapshots[-1][1]
get_snapshot_name ==
    IF Len(_snapshots) = 0 THEN "IndexError"
    ELSE _snapshots[Len(_snapshots)][2]

\* the name the innermost open push gave, '' when none is open
InnermostName(o) == IF Len(o) = 0 THEN "" ELSE o[Len(o)].name

\* HtmlWriter.push_snapshot: self._snapshots.append((self.snapshot[:], name))
PushEntry(id, name) == <<id, name>>

push_snapshot(name) ==
    /\ Len(_snapshots) < MaxDepth
    /\ LET id == NewId(snapshot, _snapshots) IN
        /\ heap' = [heap EXCEPT ![id] = heap[snapshot]]
        /\ _snapshots' = Append(_snapshots, PushEntry(id, name))
    /\ opens' = Append(opens, [data |-> heap[snapshot], name |-> name])
    /\ last' = [op |-> "push", exc |-> "none"]
    /\ UNCHANGED <<snapshot, imgvars, cfgvars, expvars, tilevars>>

\* whether pop_snapshot rejects the pop of a stack of n entries: the code
\* has no check of its own, list.pop() raises IndexError on an empty list
PopRejected(n) == n = 0

\* HtmlWriter.pop_snapshot: self.snapshot = self._snapshots.pop()[0]
pop_snapshot ==
    IF PopRejected(Len(_snapshots))
    THEN /\ last' = [op |-> "pop", exc |-> "IndexError"]
         /\ UNCHANGED <<heap, snapshot, _snapshots, opens, imgvars, cfgvars, expvars, tilevars>>
    ELSE LET n == Len(_snapshots)
             snap == _snapshots[n][1]
             stack == SubSeq(_snapshots, 1, n - 1)
         IN /\ snapshot' = snap
            /\ UNCHANGED <<imgvars, cfgvars, expvars, tilevars>>
            /\ _snapshots' = stack
            /\ heap' = Collect(heap, snap, stack)
            /\ IF Len(opens) > 0
               THEN /\ opens' = SubSeq(opens, 1, Len(opens) - 1)
                    /\ last' = [op |-> "pop", exc |-> "none", matched |-> TRUE,
                                data |-> opens[Len(opens)].data,
                                name |-> InnermostName(SubSeq(opens, 1, Len(opens) - 1)),
                                depth |-> n]
               ELSE /\ opens' = opens
                    /\ last' = [op |-> "pop", exc |-> "none", matched |-> FALSE,
                                data |-> Zero, name |-> "", depth |-> n]

\* the buffer a poke writes to: expand_pokes hands self.snapshot to
\* skoolmacro.parse_pokes, which assigns snapshot[addr] = byte in place
PokeTarget == snapshot

poke(addr, byte) ==
    /\ heap' = [heap EXCEPT ![PokeTarget][addr] = byte]
    /\ last' = [op |-> "poke", exc |-> "none",
                saved |-> [i \in 1..Len(_snapshots) |-> heap[_snapshots[i][1]]]]
    /\ UNCHANGED <<snapshot, _snapshots, opens, imgvars, cfgvars, expvars, tilevars>>

----------------------------------------------------------------------------
(* The handlers.  A handler's outcome is a record: the exception it raises  *)
(* ("none" when it returns), the exception's message, the returned end      *)
(* index and replacement, and the writer's state when it is left.           *)

\* text[index] and text[a:b] with the code's indexes, which start at 0
At(txt, index) == txt[index + 1]
Slice(txt, a, b) == SubSeq(txt, a + 1, b)

Returns(end, rep, frms, fs, calls, sent) ==
    [exc |-> "none", msg |-> <<>>, end |-> end, rep |-> rep, frames |-> frms,
     files |-> fs, calls |-> calls, sent |-> sent]

Raises(exc, msg, frms, fs) ==
    [exc |-> exc, msg |-> msg, end |-> 0, rep |-> <<>>, frames |-> frms,
     files |-> fs, calls |-> 0, sent |-> <<>>]

\* a store that keeps the entry an identifier already has
StoreKeep(frms, frame, value) ==
    [k \in DOMAIN frms \cup {frame} |-> IF k \in DOMAIN frms THEN frms[k] ELSE value]

\* frames[frame] = value
Store(frms, frame, value) ==
    [k \in DOMAIN frms \cup {frame} |-> IF k = frame THEN value ELSE frms[k]]

\* default_delay = 32 # 0.32s
InitialDefaultDelay == 32

\* _expand_udgarray_with_frames, the for loop over the frame parameters:
\* the exception raised if any, the cache (frame.delay is assigned in the
\* cached Frame itself) and the identifiers of the frames collected
RECURSIVE FrameLoop(_, _, _, _, _, _)
FrameLoop(clauses, k, default_delay, cache, ids, span) ==
    IF k > Len(clauses)
    THEN [exc |-> "none", msg |-> <<>>, cache |-> cache, ids |-> ids]
    ELSE LET c == clauses[k]
             delay == IF c.has_delay THEN c.delay ELSE default_delay
         IN IF c.has_delay /\ ~c.delay_ok
            THEN [exc |-> "MacroParsingError",
                  msg |-> <<"Invalid delay parameter: ", c.delay_text>>,
                  cache |-> cache, ids |-> ids]
            ELSE IF c.frame_id = <<>>
            THEN [exc |-> "MacroParsingError",
                  msg |-> <<"Missing frame ID: #UDGARRAY">> \o span,
                  cache |-> cache, ids |-> ids]
            ELSE IF c.frame_id \notin DOMAIN cache
            THEN [exc |-> "MacroParsingError",
                  msg |-> <<"No such frame: ">> \o c.frame_id,
                  cache |-> cache, ids |-> ids]
            ELSE FrameLoop(clauses, k + 1, delay,
                           [cache EXCEPT ![c.frame_id].delay = delay],
                           Append(ids, c.frame_id), span)

\* HtmlWriter._expand_udgarray_with_frames
_expand_udgarray_with_frames(txt, index, cwd) ==
    LET end == index + 1
        p == ParseFrames(At(txt, index))
        ip == image_path(p.fname, UDGImagePath)
    IN IF p.fname = <<>>
       THEN Raises("MacroParsingError",
                   <<"Missing filename: #UDGARRAY">> \o Slice(txt, index, end),
                   frames, files)
       ELSE IF ip.exc # "none" THEN Raises(ip.exc, ip.msg, frames, files)
       ELSE IF need_image(ip.path)
       THEN LET loop == FrameLoop(p.clauses, 1, InitialDefaultDelay, frames, <<>>,
                                  Slice(txt, index, end))
                w == write_animated_image(files, ip.path,
                        [i \in 1..Len(loop.ids) |-> loop.cache[loop.ids[i]]])
            IN IF loop.exc # "none" THEN Raises(loop.exc, loop.msg, loop.cache, files)
               ELSE IF w.exc # "none" THEN Raises(w.exc, w.msg, loop.cache, w.files)
               ELSE Returns(end, img_element(cwd, ip.path), loop.cache, w.files,
                            w.calls, w.sent)
       ELSE Returns(end, img_element(cwd, ip.path), frames, files, 0, <<>>)

\* expand_udgarray: need_image = img_path and self.need_image(img_path)
NeedImage(img_path) == img_path # None /\ need_image(img_path)

\* skoolmacro.get_params when the required width parameter is missing
NoParameters == <<"No parameters (expected 1)">>

\* HtmlWriter.expand_udgarray, from the parsed parameters on
ExpandUdgarrayDirect(txt, index, end, p, cwd) ==
    LET built == BuildUdgArray(<<<<>>>>, FALSE, heap[snapshot], p.clauses, p.width, 1)
        mask_type == IF ~built.has_masks THEN 0 ELSE p.mask
        parts == Partition(p.fname, "*")
        fname == parts[1]
        frame == IF parts[2] # <<>> /\ parts[3] = <<>> THEN fname ELSE parts[3]
        ip == image_path(fname, UDGImagePath)
        flipped == IF p.flip # 0 THEN flip_udgs(built.udgs, p.flip) ELSE built.udgs
        udg_array == IF p.rotate # 0 THEN rotate_udgs(flipped, p.rotate) ELSE flipped
        stored == IF frame # <<>>
                  THEN Store(frames, frame,
                             Frame(udg_array, p.scale, mask_type, p.crop[1], p.crop[2],
                                   p.crop[3], p.crop[4], DefaultFrameDelay))
                  ELSE frames
        w == write_animated_image(files, ip.path,
                 <<Frame(udg_array, p.scale, mask_type, p.crop[1], p.crop[2],
                         p.crop[3], p.crop[4], DefaultFrameDelay)>>)
    IN IF ~(ReadIndexes(p.clauses, p.width) \subseteq Addrs)
       THEN Raises("IndexError", <<"list index out of range">>, frames, files)
       ELSE IF p.fname = <<>>
       THEN Raises("MacroParsingError",
                   <<"Missing filename: #UDGARRAY">> \o Slice(txt, index, end),
                   frames, files)
       ELSE IF fname = <<>> /\ frame = <<>>
       THEN Raises("MacroParsingError",
                   <<"Missing filename or frame ID: #UDGARRAY">>
                   \o Slice(txt, index, end), frames, files)
       ELSE IF ip.exc # "none" THEN Raises(ip.exc, ip.msg, frames, files)
       ELSE IF NeedImage(ip.path)
       THEN IF w.exc # "none" THEN Raises(w.exc, w.msg, stored, w.files)
            ELSE Returns(end, img_element(cwd, ip.path), stored, w.files, w.calls, w.sent)
       ELSE Returns(end, IF ip.path # None THEN img_element(cwd, ip.path) ELSE <<>>,
                    stored, files, 0, <<>>)

\* HtmlWriter.expand_udgarray
expand_udgarray(txt, index, cwd) ==
    IF index < Len(txt) /\ At(txt, index) \in FramesSpans
    THEN _expand_udgarray_with_frames(txt, index, cwd)
    ELSE IF index < Len(txt) /\ At(txt, index) \in DirectSpans
    THEN ExpandUdgarrayDirect(txt, index, index + 1,
                              ParseUdgarray(At(txt, index)), cwd)
    ELSE Raises("MacroParsingError", NoParameters, frames, files)

----------------------------------------------------------------------------
(* The macro table *)

\* the methods of HtmlWriter that inspect.getmembers hands to _create_macros:
\* every expand_* method of the class, and some of the others
Methods ==
    {<<"e", "x", "p", "a", "n", "d", "_", "b", "u", "g">>,
     <<"e", "x", "p", "a", "n", "d", "_", "c", "a", "l", "l">>,
     <<"e", "x", "p", "a", "n", "d", "_", "c", "h", "r">>,
     <<"e", "x", "p", "a", "n", "d", "_", "d">>,
     <<"e", "x", "p", "a", "n", "d", "_", "e", "r", "e", "f", "s">>,
     <<"e", "x", "p", "a", "n", "d", "_", "f", "a", "c", "t">>,
     <<"e", "x", "p", "a", "n", "d", "_", "f", "o", "n", "t">>,
     <<"e", "x", "p", "a", "n", "d", "_", "h", "t", "m", "l">>,
     <<"e", "x", "p", "a", "n", "d", "_", "l", "i", "n", "k">>,
     <<"e", "x", "p", "a", "n", "d", "_", "l", "i", "s", "t">>,
     <<"e", "x", "p", "a", "n", "d", "_", "p", "o", "k", "e">>,
     <<"e", "x", "p", "a", "n", "d", "_", "p", "o", "k", "e", "s">>,
     <<"e", "x", "p", "a", "n", "d", "_", "p", "o", "p", "s">>,
     <<"e", "x", "p", "a", "n", "d", "_", "p", "u", "s", "h", "s">>,
     <<"e", "x", "p", "a", "n", "d", "_", "r">>,
     <<"e", "x", "p", "a", "n", "d", "_", "r", "e", "f", "s">>,
     <<"e", "x", "p", "a", "n", "d", "_", "r", "e", "g">>,
     <<"e", "x", "p", "a", "n", "d", "_", "s", "c", "r">>,
     <<"e", "x", "p", "a", "n", "d", "_", "s", "p", "a", "c", "e">>,
     <<"e", "x", "p", "a", "n", "d", "_", "t", "a", "b", "l", "e">>,
     <<"e", "x", "p", "a", "n", "d", "_", "u", "d", "g">>,
     <<"e", "x", "p", "a", "n", "d", "_", "u", "d", "g", "a", "r", "r", "a", "y">>,
     <<"e", "x", "p", "a", "n", "d", "_", "u", "d", "g", "t", "a", "b", "l", "e">>,
     <<"e", "x", "p", "a", "n", "d">>,
     <<"_", "e", "x", "p", "a", "n", "d", "_", "i", "t", "e", "m", "_", "m", "a", "c", "r", "o">>,
     <<"_", "e", "x", "p", "a", "n", "d", "_", "u", "d", "g", "a", "r", "r", "a", "y", "_", "w", "i", "t", "h", "_", "f", "r", "a", "m", "e", "s">>,
     <<"n", "e", "e", "d", "_", "i", "m", "a", "g", "e">>,
     <<"i", "m", "a", "g", "e", "_", "p", "a", "t", "h">>}

ExpandPrefix == <<"e", "x", "p", "a", "n", "d", "_">>

\* _create_macros: re.search('expand_[a-z]+', name) matches the whole name
IsMacroMethod(name) ==
    /\ Len(name) > Len(ExpandPrefix)
    /\ SubSeq(name, 1, Len(ExpandPrefix)) = ExpandPrefix
    /\ \A i \in (Len(ExpandPrefix) + 1)..Len(name) : IsLower(name[i])

\* _create_macros: '#{0}'.format(name[len(prefix):].upper())
MacroOf(name) == <<"#">> \o ToUpper(SubSeq(name, Len(ExpandPrefix) + 1, Len(name)))

\* self.macros: the markers, and the method registered for a marker
Markers == {MacroOf(name) : name \in {n \in Methods : IsMacroMethod(n)}}
MethodFor(marker) == CHOOSE n \in Methods : IsMacroMethod(n) /\ MacroOf(n) = marker

CALL == <<"#", "C", "A", "L", "L">>
UDGARRAY == <<"#", "U", "D", "G", "A", "R", "R", "A", "Y">>

----------------------------------------------------------------------------
(* #CALL:method(args): skoolmacro.parse_call calls a method of the writer   *)
(* that the user's extension defines and returns what it returns.  The      *)
(* sampled methods:                                                         *)
(*   x     returns 'x'              none  returns None                      *)
(*   self  returns '#CALL:self()'   ping, pong  return each other's call    *)
(*   tok   returns '#X'             udg   returns '#UDGARRAY1;0(a)'         *)
(*   hash  returns '#'              unsup raises UnsupportedMacroError      *)
(*   bad   raises MacroParsingError                                         *)
(*   img   calls self.image_path('a', 'SpriteImagePath'), no such path ID   *)

CallSpans == {":x()", ":none()", ":self()", ":ping()", ":pong()", ":tok()",
              ":udg()", ":hash()", ":unsup()", ":bad()", ":img()"}

expand_call(txt, index, cwd) ==
    IF ~(index < Len(txt) /\ At(txt, index) \in CallSpans)
    THEN Raises("MacroParsingError",
                IF index < Len(txt) THEN <<"Malformed macro: #CALL", At(txt, index), "...">>
                ELSE <<"No parameters">>, frames, files)
    ELSE LET span == At(txt, index)
             ret(rep) == Returns(index + 1, rep, frames, files, 0, <<>>)
         IN CASE span = ":x()" -> ret(<<"x">>)
              [] span = ":none()" -> ret(<<>>)
              [] span = ":self()" -> ret(CALL \o <<":self()">>)
              [] span = ":ping()" -> ret(CALL \o <<":pong()">>)
              [] span = ":pong()" -> ret(CALL \o <<":ping()">>)
              [] span = ":tok()" -> ret(<<"#", "X">>)
              [] span = ":udg()" -> ret(UDGARRAY \o <<"1;0(a)">>)
              [] span = ":hash()" -> ret(<<"#">>)
              [] span = ":unsup()" ->
                    Raises("UnsupportedMacroError", <<>>, frames, files)
              [] span = ":bad()" ->
                    Raises("MacroParsingError", <<"Bad argument: ", span>>, frames, files)
              [] span = ":img()" ->
                    LET ip == image_path(<<"a">>, "SpriteImagePath") IN
                    IF ip.exc # "none" THEN Raises(ip.exc, ip.msg, frames, files)
                    ELSE ret(ip.path)

\* HtmlWriter.__init__: self.snapshot = self.parser.snapshot;
\* self._snapshots = [(self.snapshot, '')]: the base entry IS the current buffer
InitStack ==
    /\ snapshot = 0
    /\ heap = [i \in Ids |-> IF i = 0 THEN ParserSnapshot ELSE Zero]
    /\ _snapshots = <<PushEntry(0, "")>>
    /\ opens = <<>>

\* no tile is being worked on
NoTiles == tiles = <<>> /\ called = <<>>

InitSnapshots == InitStack /\ last = NoOp /\ NoTiles


\* the writer's configuration and the output tree when the writer is made:
\* the [Paths] section names UDGImagePath, the default format is png or gif
DefaultPaths == [id \in {UDGImagePath} |-> ImagesUdgs]
ImageFormats == {<<"p", "n", "g">>, <<"g", "i", "f">>}
Cwds == {<<>>, <<"a", "s", "m">>}

InitImages ==
    /\ frames = <<>>
    /\ replace_images \in BOOLEAN
    /\ paths = DefaultPaths
    /\ default_image_format \in ImageFormats
    /\ files \in SUBSET {image_path(<<"a">>, UDGImagePath).path,
                         image_path(<<"/", "c">>, UDGImagePath).path}

\* one invocation of #UDGARRAY with the parameters span, from directory cwd
ExpandUdgarray(span, cwd) ==
    \E o \in {expand_udgarray(<<span>>, 0, cwd)} :
    /\ frames' = o.frames
    /\ files' = o.files
    /\ last' = [op |-> "udgarray", span |-> span, cwd |-> cwd, exc |-> o.exc,
                msg |-> o.msg, rep |-> o.rep, calls |-> o.calls, sent |-> o.sent,
                existed |-> files, cached |-> frames]
    /\ UNCHANGED <<snapvars, cfgvars, expvars, tilevars>>

\* no text is being expanded
NoExpand == text = <<>> /\ pc = "returned" /\ err = NoOp /\ passes = 0 /\ input = <<>>

InitImg == InitSnapshots /\ InitImages /\ NoExpand

NextImg == \E span \in DirectSpans \cup FramesSpans, cwd \in Cwds :
               ExpandUdgarray(span, cwd)

SpecImg == InitImg /\ [][NextImg]_vars

InitSnap ==
    /\ InitSnapshots /\ InitImages /\ NoExpand
    /\ ~replace_images /\ files = {} /\ default_image_format = <<"p", "n", "g">>

NextSnap ==
    \/ \E name \in Names : push_snapshot(name)
    \/ pop_snapshot
    \/ \E addr \in PokeAddrs, byte \in Bytes : poke(addr, byte)

SpecSnap == InitSnap /\ [][NextSnap]_vars

----------------------------------------------------------------------------
(* HtmlWriter.expand *)

\* a search that cannot match at the start of the text
StartsAfterFirst(txt) ==
    {i \in 1..(Len(txt) - 2) : At(txt, i) = "#" /\ IsUpper(At(txt, i + 1))}

\* re.search('#[A-Z]+', text): the places where a match can start
Starts(txt) ==
    {i \in 0..(Len(txt) - 2) : At(txt, i) = "#" /\ IsUpper(At(txt, i + 1))}

\* a search that takes the rightmost match
MatchStartLast(txt) == CHOOSE i \in Starts(txt) : \A j \in Starts(txt) : i >= j

\* search.span(): the leftmost match, as long as the letters go
MatchStart(txt) == CHOOSE i \in Starts(txt) : \A j \in Starts(txt) : i <= j

\* a match that ends where the first registered name ends
MatchEndRegistered(txt) ==
    LET start == MatchStart(txt)
        run == CHOOSE e \in (start + 2)..Len(txt) :
                   /\ \A k \in (start + 1)..(e - 1) : IsUpper(At(txt, k))
                   /\ e = Len(txt) \/ ~IsUpper(At(txt, e))
        ends == {e \in (start + 2)..run : Slice(txt, start, e) \in Markers}
    IN IF ends = {} THEN run ELSE CHOOSE e \in ends : \A f \in ends : e <= f

MatchEnd(txt) ==
    LET start == MatchStart(txt) IN
    CHOOSE e \in (start + 2)..Len(txt) :
        /\ \A k \in (start + 1)..(e - 1) : IsUpper(At(txt, k))
        /\ e = Len(txt) \/ ~IsUpper(At(txt, e))

\* if not text or text.find('#') < 0: return text
ShortCircuit(txt) == txt = <<>> \/ \A i \in 1..Len(txt) : txt[i] # "#"

\* a loop that gives up after MaxPasses passes
LoopGuardBounded(n) == n < MaxPasses

\* while 1:
LoopGuard(n) == TRUE

\* repf = self.macros[marker]; repf(text, index, cwd)
Repf(marker, txt, index, cwd) ==
    CASE marker = CALL -> expand_call(txt, index, cwd)
      [] marker = UDGARRAY -> expand_udgarray(txt, index, cwd)

\* an unknown-macro error that does not say which macro
UnknownMacroUnnamed(marker) ==
    [type |-> "SkoolParsingError", msg |-> <<"Found unknown macro">>]

\* raise SkoolParsingError('Found unknown macro: {0}'.format(marker))
UnknownMacro(marker) ==
    [type |-> "SkoolParsingError", msg |-> <<"Found unknown macro: ">> \o marker]

\* except clauses that drop the handler's own message
RewrapBare(marker, exc, msg) ==
    IF exc = "UnsupportedMacroError" \/ exc = "MacroParsingError"
    THEN [type |-> "SkoolParsingError",
          msg |-> <<"Error while parsing ">> \o marker \o <<" macro">>]
    ELSE [type |-> exc, msg |-> msg]

\* the except clauses of expand; any other exception passes through
Rewrap(marker, exc, msg) ==
    IF exc = "UnsupportedMacroError"
    THEN [type |-> "SkoolParsingError",
          msg |-> <<"Found unsupported macro: ">> \o marker]
    ELSE IF exc = "MacroParsingError"
    THEN [type |-> "SkoolParsingError",
          msg |-> <<"Error while parsing ">> \o marker \o <<" macro: ">> \o msg]
    ELSE [type |-> exc, msg |-> msg]

\* a splice that leaves the '#' of the token in the text
SpliceAfterHash(txt, start, rep, end) ==
    Slice(txt, 0, start + 1) \o rep \o Slice(txt, end, Len(txt))

\* text = text[:start] + rep + text[end:]
Splice(txt, start, rep, end) == Slice(txt, 0, start) \o rep \o Slice(txt, end, Len(txt))

Bump(n) == IF n < MaxPasses THEN n + 1 ELSE n

\* expand is entered: empty text and text without '#' are returned at once
ExpandEnter ==
    /\ pc = "call"
    /\ pc' = IF ShortCircuit(text) THEN "returned" ELSE "loop"
    /\ last' = [op |-> "enter", exc |-> "none"]
    /\ UNCHANGED <<text, err, passes, input, snapvars, imgvars, cfgvars, tilevars>>

\* a pass finds no match: break, return text
ExpandBreak ==
    /\ pc = "loop"
    /\ ~LoopGuard(passes) \/ Starts(text) = {}
    /\ pc' = "returned"
    /\ last' = [op |-> "break", exc |-> "none"]
    /\ UNCHANGED <<text, err, passes, input, snapvars, imgvars, cfgvars, tilevars>>

\* a pass finds a marker that is not in self.macros
ExpandUnknown ==
    /\ pc = "loop" /\ LoopGuard(passes) /\ Starts(text) # {}
    /\ LET marker == Slice(text, MatchStart(text), MatchEnd(text)) IN
        /\ marker \notin Markers
        /\ pc' = "raised"
        /\ err' = UnknownMacro(marker)
        /\ last' = [op |-> "unknown", exc |-> "none", before |-> text,
                    start |-> MatchStart(text), marker |-> marker]
    /\ passes' = Bump(passes)
    /\ UNCHANGED <<text, input, snapvars, imgvars, cfgvars, tilevars>>

\* a pass finds a registered marker and calls its handler
ExpandDispatch(cwd) ==
    /\ pc = "loop" /\ LoopGuard(passes) /\ Starts(text) # {}
    /\ \E start \in {MatchStart(text)}, index \in {MatchEnd(text)} :
        LET marker == Slice(text, start, index) IN
        /\ marker \in Markers
        /\ \E o \in {Repf(marker, text, index, cwd)} :
            /\ frames' = o.frames
            /\ files' = o.files
            /\ IF o.exc = "none"
               THEN /\ text' = Splice(text, start, o.rep, o.end)
                    /\ pc' = "loop"
                    /\ err' = err
               ELSE /\ text' = text
                    /\ pc' = "raised"
                    /\ err' = Rewrap(marker, o.exc, o.msg)
            /\ last' = [op |-> "dispatch", exc |-> o.exc, before |-> text,
                        start |-> start, index |-> index, marker |-> marker,
                        msg |-> o.msg, end |-> o.end, rep |-> o.rep,
                        calls |-> o.calls, sent |-> o.sent]
    /\ passes' = Bump(passes)
    /\ UNCHANGED <<input, snapvars, cfgvars, tilevars>>

\* the items the sampled texts are made of
Items ==
    {<<"x">>, <<"#">>, <<"X">>, <<"#", "X">>, CALL}
    \cup {CALL \o <<span>> :
            span \in {":x()", ":self()", ":ping()", ":tok()", ":udg()",
                      ":unsup()", ":bad()", ":img()"}}
    \cup {UDGARRAY \o <<span>> :
            span \in {"1;8(*f)", "*f(n)", "*(n)", "1;65536(a)"}}

RECURSIVE TextsOf(_)
TextsOf(n) ==
    IF n = 0 THEN {<<>>}
    ELSE LET shorter == TextsOf(n - 1) IN
         shorter \cup {t \o item : t \in shorter, item \in Items}

InitExpand ==
    /\ InitSnapshots
    /\ frames = <<>> /\ files = {} /\ paths = DefaultPaths
    /\ replace_images \in BOOLEAN
    /\ default_image_format = <<"p", "n", "g">>
    /\ text \in TextsOf(MaxItems)
    /\ input = text
    /\ pc = "call" /\ err = NoOp /\ passes = 0

\* the directory of the page being written
ExpandCwd == <<"a", "s", "m">>

NextExpand ==
    \/ ExpandEnter
    \/ ExpandBreak
    \/ ExpandUnknown
    \/ ExpandDispatch(ExpandCwd)

SpecExpand == InitExpand /\ [][NextExpand]_vars

\* the number of '#' characters of txt
Hashes(txt) == Cardinality({i \in 1..Len(txt) : txt[i] = "#"})

\* every handler the text invokes raises, or returns an end index behind the
\* start of its token and a replacement without '#'
TameHandlers(txt) ==
    \A i \in 0..(Len(txt) - 1), marker \in {CALL, UDGARRAY} :
        (/\ i + Len(marker) <= Len(txt)
         /\ Slice(txt, i, i + Len(marker)) = marker)
            => \E o \in {Repf(marker, txt, i + Len(marker), ExpandCwd)} :
                  o.exc # "none" \/ (Hashes(o.rep) = 0 /\ o.end > i)

\* expand on the texts whose handlers are tame, run on to its end: a pass
\* that can be made is made
InitTame == InitExpand /\ TameHandlers(text)

SpecExpandTame == InitTame /\ [][NextExpand]_vars /\ WF_vars(NextExpand)

----------------------------------------------------------------------------
(* expand on texts with #POKES, #PUSHS and #POPS *)

POKES == <<"#", "P", "O", "K", "E", "S">>
PUSHS == <<"#", "P", "U", "S", "H", "S">>
POPS == <<"#", "P", "O", "P", "S">>

\* skoolmacro.parse_pokes on #POKESaddr,byte: the sampled parameters
PokeSpans == {"0,255", "1,0"}
PokedAddr(span) == IF span = "0,255" THEN 0 ELSE 1
PokedByte(span) == IF span = "0,255" THEN 255 ELSE 0

\* an error that puts the writer back into the state expand was entered in
StateAtEntry(now, entry) == entry

\* the writer's state when a handler that failed is left: the except clauses
\* of expand restore nothing
StateOnError(now, entry) == now

\* expand_pokes, expand_pushs, expand_pops: what the handler raises or
\* returns, and the snapshot, the stack and the buffers when it is left
SnapshotMacro(marker, txt, index) ==
    LET out(exc, msg, end, h, snap, stack, o) ==
            [exc |-> exc, msg |-> msg, end |-> end, rep |-> <<>>, heap |-> h,
             snapshot |-> snap, stack |-> stack, opens |-> o]
        has_span(spans) == index < Len(txt) /\ At(txt, index) \in spans
        n == Len(_snapshots)
        id == NewId(snapshot, _snapshots)
        name == IF has_span(Names) THEN At(txt, index) ELSE ""
    IN CASE marker = POKES ->
              IF has_span(PokeSpans)
              THEN out("none", <<>>, index + 1,
                       [heap EXCEPT ![PokeTarget][PokedAddr(At(txt, index))] =
                                        PokedByte(At(txt, index))],
                       snapshot, _snapshots, opens)
              ELSE out("MacroParsingError", <<"No parameters (expected 2)">>, 0,
                       heap, snapshot, _snapshots, opens)
         [] marker = PUSHS ->
              out("none", <<>>, IF has_span(Names) THEN index + 1 ELSE index,
                  [heap EXCEPT ![id] = heap[snapshot]], snapshot,
                  Append(_snapshots, PushEntry(id, name)),
                  Append(opens, [data |-> heap[snapshot], name |-> name]))
         [] marker = POPS ->
              IF PopRejected(n)
              THEN out("IndexError", <<"pop from empty list">>, 0,
                       heap, snapshot, _snapshots, opens)
              ELSE out("none", <<>>, index,
                       Collect(heap, _snapshots[n][1], SubSeq(_snapshots, 1, n - 1)),
                       _snapshots[n][1], SubSeq(_snapshots, 1, n - 1),
                       IF Len(opens) > 0 THEN SubSeq(opens, 1, Len(opens) - 1)
                       ELSE opens)

\* a pass finds #POKES, #PUSHS or #POPS and calls its handler
ExpandSnapshotMacro ==
    /\ pc = "loop" /\ LoopGuard(passes) /\ Starts(text) # {}
    /\ \E start \in {MatchStart(text)}, index \in {MatchEnd(text)} :
        LET marker == Slice(text, start, index) IN
        /\ marker \in Markers /\ marker \in {POKES, PUSHS, POPS}
        /\ marker = PUSHS => Len(_snapshots) < MaxDepth
        /\ \E o \in {SnapshotMacro(marker, text, index)} :
            /\ IF o.exc = "none"
               THEN /\ text' = Splice(text, start, o.rep, o.end)
                    /\ pc' = "loop"
                    /\ err' = err
                    /\ heap' = o.heap /\ snapshot' = o.snapshot
                    /\ _snapshots' = o.stack /\ opens' = o.opens
               ELSE /\ text' = text
                    /\ pc' = "raised"
                    /\ err' = Rewrap(marker, o.exc, o.msg)
                    /\ heap' = StateOnError(o.heap, [i \in Ids |->
                                   IF i = 0 THEN ParserSnapshot ELSE Zero])
                    /\ snapshot' = StateOnError(o.snapshot, 0)
                    /\ _snapshots' = StateOnError(o.stack, <<PushEntry(0, "")>>)
                    /\ opens' = StateOnError(o.opens, <<>>)
            /\ last' = [op |-> "dispatch", exc |-> o.exc, before |-> text,
                        start |-> start, index |-> index, marker |-> marker,
                        msg |-> o.msg, end |-> o.end, rep |-> o.rep,
                        calls |-> 0, sent |-> <<>>]
    /\ passes' = Bump(passes)
    /\ UNCHANGED <<input, imgvars, cfgvars, tilevars>>

\* a pass finds #CALL or #UDGARRAY and calls its handler
ExpandImageMacro ==
    /\ pc = "loop" /\ Starts(text) # {}
    /\ Slice(text, MatchStart(text), MatchEnd(text)) \in {CALL, UDGARRAY}
    /\ ExpandDispatch(ExpandCwd)

\* the macros that change the writer's state, and the ones that fail
EffectItems == {POKES \o <<"0,255">>, PUSHS \o <<"a">>, POPS,
                UDGARRAY \o <<"1;8(*f)">>, UDGARRAY \o <<"*f(n)">>}
FailItems == {<<"#", "X">>, POKES, CALL \o <<":bad()">>, UDGARRAY \o <<"*(n)">>,
              UDGARRAY \o <<"1;65536(a)">>}

InitEffects ==
    /\ InitSnapshots
    /\ frames = <<>> /\ files = {} /\ paths = DefaultPaths
    /\ replace_images \in BOOLEAN
    /\ default_image_format = <<"p", "n", "g">>
    /\ text \in {a \o b \o c : a \in EffectItems \cup {<<>>},
                               b \in EffectItems \cup {<<>>},
                               c \in FailItems \cup {POPS, <<>>}}
    /\ input = text
    /\ pc = "call" /\ err = NoOp /\ passes = 0

NextEffects ==
    \/ ExpandEnter
    \/ ExpandBreak
    \/ ExpandUnknown
    \/ ExpandImageMacro
    \/ ExpandSnapshotMacro

SpecEffects == InitEffects /\ [][NextEffects]_vars

----------------------------------------------------------------------------
(* expand on macro names that go on after a registered name *)

REG == <<"#", "R", "E", "G">>

\* expand_reg: skoolmacro.parse_reg on #REGreg, and the 'reg' template
expand_reg(txt, index, cwd) ==
    IF index < Len(txt) /\ At(txt, index) = "bc"
    THEN Returns(index + 1, <<"<span>", "B", "C", "</span>">>, frames, files, 0, <<>>)
    ELSE Raises("MacroParsingError", <<"Missing register argument">>, frames, files)

\* a pass finds #REG and calls its handler
ExpandRegMacro ==
    /\ pc = "loop" /\ LoopGuard(passes) /\ Starts(text) # {}
    /\ \E start \in {MatchStart(text)}, index \in {MatchEnd(text)} :
        LET marker == Slice(text, start, index) IN
        /\ marker \in Markers /\ marker = REG
        /\ \E o \in {expand_reg(text, index, ExpandCwd)} :
            /\ IF o.exc = "none"
               THEN /\ text' = Splice(text, start, o.rep, o.end)
                    /\ pc' = "loop"
                    /\ err' = err
               ELSE /\ text' = text
                    /\ pc' = "raised"
                    /\ err' = Rewrap(marker, o.exc, o.msg)
            /\ last' = [op |-> "dispatch", exc |-> o.exc, before |-> text,
                        start |-> start, index |-> index, marker |-> marker,
                        msg |-> o.msg, end |-> o.end, rep |-> o.rep,
                        calls |-> 0, sent |-> <<>>]
    /\ passes' = Bump(passes)
    /\ UNCHANGED <<input, snapvars, imgvars, cfgvars, tilevars>>

\* names, parameters and letters that go on after a name
NameItems == {REG, REG \o <<"bc">>, UDGARRAY, UDGARRAY \o <<"1;8(*f)">>,
              CALL, CALL \o <<":x()">>, <<"B", "C">>, <<"x">>}

InitNames ==
    /\ InitSnapshots
    /\ frames = <<>> /\ files = {} /\ paths = DefaultPaths
    /\ replace_images \in BOOLEAN
    /\ default_image_format = <<"p", "n", "g">>
    /\ text \in {a \o b : a \in NameItems \cup {<<>>}, b \in NameItems \cup {<<>>}}
    /\ input = text
    /\ pc = "call" /\ err = NoOp /\ passes = 0

NextNames ==
    \/ ExpandEnter
    \/ ExpandBreak
    \/ ExpandUnknown
    \/ ExpandImageMacro
    \/ ExpandRegMacro

SpecNames == InitNames /\ [][NextNames]_vars

----------------------------------------------------------------------------
(* Address specifications *)

\* the sampled address specifications A, A-B, A-B-H, A-B-H-V, each with or
\* without xN, and their text
AddrInputs ==
    [form : {"A", "A-B", "A-B-H", "A-B-H-V"}, a : {100, 30000, 30001},
     run : (0 - 1)..MaxRun, h : {1, 2}, v : {1, 2, 4},
     x : BOOLEAN, n : 0..MaxRepeat]

AddrText(in) ==
    Decimal(in.a)
    \o (IF in.form # "A" THEN <<"-">> \o Decimal(in.a + in.run) ELSE <<>>)
    \o (IF in.form \in {"A-B-H", "A-B-H-V"} THEN <<"-">> \o Decimal(in.h) ELSE <<>>)
    \o (IF in.form = "A-B-H-V" THEN <<"-">> \o Decimal(in.v) ELSE <<>>)
    \o (IF in.x THEN <<"x">> \o Decimal(in.n) ELSE <<>>)

\* texts that are no address specification
BadAddrTexts == {<<"1", "-", "2", "-", "1", "-", "1", "-", "1">>, <<"1", "x">>,
                 <<"-", "1">>, <<"1", "x", "2", "x", "3">>}

\* the call _get_udg_addresses(addr_spec, width)
GetUdgAddresses ==
    /\ last.op = "call" /\ last.fn = "_get_udg_addresses"
    /\ \E p \in {ParseAddrSpec(last.addr_spec)} :
        last' = [op |-> "addresses", addr_spec |-> last.addr_spec,
                 width |-> last.width, exc |-> p.exc, msg |-> p.msg,
                 addresses |-> IF p.exc = "none"
                               THEN _get_udg_addresses(p, last.width) ELSE <<>>]
    /\ UNCHANGED <<snapvars, imgvars, cfgvars, expvars, tilevars>>

\* a writer just made, with no image written and no text being expanded
InitWriter ==
    /\ InitStack /\ InitImages /\ NoExpand
    /\ ~replace_images /\ files = {} /\ default_image_format = <<"p", "n", "g">>

InitAddr ==
    /\ InitWriter /\ NoTiles
    /\ last \in [op : {"call"}, fn : {"_get_udg_addresses"},
                 addr_spec : {AddrText(in) : in \in AddrInputs} \cup BadAddrTexts,
                 width : 1..MaxWidth]

NextAddr == GetUdgAddresses

SpecAddr == InitAddr /\ [][NextAddr]_vars

\* the while loop of _get_udg_addresses taken one iteration at a time: the
\* integers of the specifications A-B, A-B-H and A-B-H-V with steps from 0 on
LoopInputs ==
    LET ends == {100 + run : run \in (0 - 1)..MaxRun} IN
    {<<100, b>> : b \in ends}
    \cup {<<100, b, h>> : b \in ends, h \in 0..2}
    \cup {<<100, b, h, v>> : b \in ends, h \in 0..2, v \in 0..2}

\* the entries the list of addresses has room for: more than any list of a
\* loop that ends on these inputs
MaxAddresses == (MaxRun + 2) * (MaxWidth + 1)

\* elements.append(...): the defaults of the end address and the two steps
WithDefaults(elements, width) ==
    LET e2 == IF Len(elements) < 2 THEN Append(elements, elements[1]) ELSE elements
        e3 == IF Len(e2) < 3 THEN Append(e2, 1) ELSE e2
    IN IF Len(e3) < 4 THEN Append(e3, DefaultVStep(e3[3], width)) ELSE e3

\* _get_udg_addresses up to the while loop: the elements and their defaults
AddrEnter ==
    /\ last.op = "call" /\ last.fn = "address_loop"
    /\ \E e \in {WithDefaults(last.elements, last.width)} :
        last' = [op |-> "loop", elements |-> last.elements,
                 width |-> last.width, num |-> 1,
                 address |-> e[1], end_address |-> e[2],
                 h_step |-> e[3], v_step |-> e[4], addresses |-> <<>>]
    /\ UNCHANGED <<snapvars, imgvars, cfgvars, expvars, tilevars>>

\* one iteration of the while loop
AddrStep ==
    /\ last.op = "loop" /\ last.address <= last.end_address
    /\ Len(last.addresses) < MaxAddresses
    /\ LET added == Append(last.addresses, last.address) IN
       last' = [last EXCEPT
                  !.addresses = added,
                  !.address = IF Len(added) % last.width # 0
                              THEN last.address + last.h_step
                              ELSE last.address + last.v_step
                                   - (last.width - 1) * last.h_step]
    /\ UNCHANGED <<snapvars, imgvars, cfgvars, expvars, tilevars>>

\* the loop ends: return addresses * num
AddrReturn ==
    /\ last.op = "loop" /\ last.address > last.end_address
    /\ last' = [op |-> "addresses", elements |-> last.elements,
                width |-> last.width, exc |-> "none",
                addresses |-> Repeat(last.addresses, last.num)]
    /\ UNCHANGED <<snapvars, imgvars, cfgvars, expvars, tilevars>>

\* the loop goes on and the list has outgrown the memory
AddrExhaust ==
    /\ last.op = "loop" /\ last.address <= last.end_address
    /\ Len(last.addresses) >= MaxAddresses
    /\ last' = [op |-> "addresses", elements |-> last.elements,
                width |-> last.width, exc |-> "MemoryError",
                addresses |-> <<>>]
    /\ UNCHANGED <<snapvars, imgvars, cfgvars, expvars, tilevars>>

InitAddrLoop ==
    /\ InitWriter /\ NoTiles
    /\ last \in [op : {"call"}, fn : {"address_loop"},
                 elements : LoopInputs, width : 1..MaxWidth]

NextAddrLoop == AddrEnter \/ AddrStep \/ AddrReturn \/ AddrExhaust

\* the loop runs on: an iteration that can be made is made
SpecAddrLoop == InitAddrLoop /\ [][NextAddrLoop]_vars /\ WF_vars(NextAddrLoop)

----------------------------------------------------------------------------
(* Image paths: image_path(fname, path_id) *)

\* the sampled file names, path identifiers and [Paths] tables
PathNames ==
    {<<"a">>, <<"a", ".", "p", "n", "g">>, <<"a", ".", "g", "i", "f">>,
     <<"A", ".", "P", "N", "G">>, <<"p", "n", "g">>, <<"a", ".", "j", "p", "g">>,
     <<"d", "/", "e">>, <<"/", "c">>, <<"/", "c", ".", "g", "i", "f">>, <<"/">>}
PathIds == {UDGImagePath, "SpriteImagePath"}
PathTables == {DefaultPaths, [id \in {UDGImagePath} |-> <<>>]}

\* the call image_path(fname, path_id), and _get_image_format on its result
ImagePath ==
    /\ last.op = "call" /\ last.fn = "image_path"
    /\ \E ip \in {image_path(last.fname, last.path_id)} :
        last' = [op |-> "image_path", fname |-> last.fname, path_id |-> last.path_id,
                 exc |-> ip.exc, msg |-> ip.msg, path |-> ip.path,
                 format |-> IF ip.exc = "none" THEN _get_image_format(ip.path)
                            ELSE "none"]
    /\ UNCHANGED <<snapvars, imgvars, cfgvars, expvars, tilevars>>

InitPath ==
    /\ InitStack /\ NoExpand /\ NoTiles
    /\ frames = <<>> /\ files = {} /\ replace_images = FALSE
    /\ paths \in PathTables
    /\ default_image_format \in ImageFormats
    /\ last \in [op : {"call"}, fn : {"image_path"}, fname : PathNames,
                 path_id : PathIds]

NextPath == ImagePath

SpecPath == InitPath /\ [][NextPath]_vars

----------------------------------------------------------------------------
(* The #R macro: HtmlWriter.expand_r.  The parser (entries, labels) and     *)
(* skoolmacro.parse_r lie outside the writer; a sample stands for them.     *)

MAIN_CODE_ID == <<"m", "a", "i", "n">>
Asm == <<"a", "s", "m">>
OtherId == <<"O", "t", "h", "e", "r">>
OtherPath == <<"o", "t", "h", "e", "r">>

\* self.other_code: the [OtherCode:*] sections, (identifier, Path)
other_code == <<<<OtherId, OtherPath>>>>

\* self.paths.get('CodePath', 'asm')
CodePath == IF "CodePath" \in DOMAIN paths THEN paths["CodePath"] ELSE Asm

\* HtmlWriter.get_code_path: the path, None when no identifier matches
get_code_path(code_id) ==
    IF ToLower(code_id) = MAIN_CODE_ID THEN CodePath
    ELSE IF \E i \in 1..Len(other_code) : ToLower(other_code[i][1]) = ToLower(code_id)
    THEN other_code[CHOOSE i \in 1..Len(other_code) :
                        /\ ToLower(other_code[i][1]) = ToLower(code_id)
                        /\ \A j \in 1..(i - 1) :
                              ToLower(other_code[j][1]) # ToLower(code_id)][2]
    ELSE None

\* the entries of the disassembly and of the other one: first address and size
MainEntries == {[address |-> 30000, size |-> 2]}
OtherEntries == {[address |-> 40000, size |-> 2]}

\* parser.get_container(address, code_id): the entries that hold the address
\* (one at most)
Containers(address, code_id) ==
    {e \in IF code_id = <<>> \/ ToLower(code_id) = MAIN_CODE_ID
           THEN MainEntries ELSE OtherEntries :
        e.address <= address /\ address < e.address + e.size}

\* FileInfo.asm_fname(address), FileInfo.asm_relpath(cwd, address, path)
asm_fname(address) == Decimal(address) \o <<".", "h", "t", "m", "l">>
asm_relpath(cwd, address, path) == relpath(cwd, join(path, asm_fname(address)))

\* HtmlWriter.expand_r from what parse_r returns: the exception, or the
\* link's href (ref_file + anchor), the entry the link goes to and the text
expand_r(p, cwd) ==
    LET code_path == IF p.code_id # <<>> THEN get_code_path(p.code_id) ELSE CodePath
        container == Containers(p.address, p.code_id)
        container_address == IF container # {}
                             THEN (CHOOSE e \in container : TRUE).address
                             ELSE p.address
        anchor == IF p.address # container_address
                  THEN <<"#">> \o Decimal(p.address) ELSE p.anchor
        failed(msg) == [exc |-> "MacroParsingError", msg |-> msg, href |-> <<>>,
                        anchor |-> <<>>, link_text |-> <<>>]
    IN IF p.code_id # <<>> /\ code_path = None
       THEN failed(<<"Could not find code path for '">> \o p.code_id
                   \o <<"' disassembly">>)
       ELSE IF p.code_id = <<>> /\ container = {}
       THEN failed(<<"Could not find routine file containing ">> \o Decimal(p.address))
       ELSE [exc |-> "none", msg |-> <<>>,
             href |-> asm_relpath(cwd, container_address, code_path) \o anchor,
             anchor |-> anchor,
             link_text |-> IF p.link_text # <<>> THEN p.link_text
                           ELSE Decimal(p.address)]

\* the sampled invocations #Raddress[@code_id][#anchor][(link text)]
RInputs ==
    [address : {30000, 30001, 40000, 40001, 50000},
     code_id : {<<>>, MAIN_CODE_ID, <<"o", "t", "h", "e", "r">>,
                <<"n", "o", "n", "e">>},
     anchor : {<<>>, <<"#", "t">>},
     link_text : {<<>>, <<"x">>}]

\* the directories the pages with the macro are written to
RCwds == {<<>>, <<"m", "a", "p", "s">>}

\* one invocation of #R
ExpandR ==
    /\ last.op = "call" /\ last.fn = "expand_r"
    /\ \E o \in {expand_r(last.p, last.cwd)} :
        last' = [op |-> "r", p |-> last.p, cwd |-> last.cwd, exc |-> o.exc,
                 msg |-> o.msg, href |-> o.href, anchor |-> o.anchor,
                 link_text |-> o.link_text]
    /\ UNCHANGED <<snapvars, imgvars, cfgvars, expvars, tilevars>>

InitR ==
    /\ InitWriter /\ NoTiles
    /\ last \in [op : {"call"}, fn : {"expand_r"}, p : RInputs, cwd : RCwds]

NextR == ExpandR

SpecR == InitR /\ [][NextR]_vars

----------------------------------------------------------------------------
(* Frames: Frame(udgs, scale, mask, x, y, width, height) *)

\* a grid of rows x columns tiles
BlankGrid(rows, columns) ==
    [r \in 1..rows |-> [c \in 1..columns |-> Udg(56, [n \in 1..8 |-> 0], None)]]

\* the sampled arguments: a crop width or height is an integer or None
\* (has_width, has_height FALSE)
FrameInputs ==
    [rows : 1..2, columns : 1..2, scale : 1..MaxScale,
     x : {0, 3, 16}, has_width : BOOLEAN, width : {0, 1, 8, 40},
     y : {0, 5}, has_height : BOOLEAN, height : {0, 4}]

\* the call Frame(udgs, scale, 0, x, y, width, height).  'width or
\* self._full_width' takes None and 0 alike, so None is handed on as 0
MakeFrame ==
    /\ last.op = "call" /\ last.fn = "Frame"
    /\ \E a \in {last.args} :
       \E f \in {Frame(BlankGrid(a.rows, a.columns), a.scale, 0, a.x, a.y,
                       IF a.has_width THEN a.width ELSE 0,
                       IF a.has_height THEN a.height ELSE 0, DefaultFrameDelay)} :
        last' = [op |-> "frame", args |-> a, frame |-> f, cropped |-> Cropped(f)]
    /\ UNCHANGED <<snapvars, imgvars, cfgvars, expvars, tilevars>>

InitFrame ==
    /\ InitWriter /\ NoTiles
    /\ last \in [op : {"call"}, fn : {"Frame"},
                 args : {a \in FrameInputs : (~a.has_width => a.width = 0)
                                            /\ (~a.has_height => a.height = 0)}]

NextFrame == MakeFrame

SpecFrame == InitFrame /\ [][NextFrame]_vars

----------------------------------------------------------------------------
(* The tile grid of the direct form of #UDGARRAY *)

\* a source clause a-b[,,,inc][:8]: the tiles at a..b, each byte raised by
\* inc, with or without a mask address
GridClause(a, b, inc, has_mask) ==
    [address |-> [elements |-> <<a, b>>, num |-> 1], attr |-> 56, step |-> 1,
     inc |-> inc, has_mask |-> has_mask, mask_addr |-> Range(8), mask_step |-> 1]

GridClauses ==
    {GridClause(a, a + run, inc, has_mask) :
        a \in {0, 4}, run \in (0 - 1)..MaxRun, inc \in {0, 250}, has_mask \in BOOLEAN}

\* the sampled invocations #UDGARRAYwidth,,,,,,,mask;clause[;clause](a*f)
GridInputs ==
    {Direct(width, 0, 0, mask, clauses, <<"a", "*", "f">>) :
        width \in 1..MaxWidth, mask \in {1, 2},
        clauses \in {<<c>> : c \in GridClauses}
                    \cup {<<c, d>> : c \in GridClauses, d \in GridClauses}}

\* the call of expand_udgarray with the parameters last.p
ExpandGrid ==
    /\ last.op = "call" /\ last.fn = "expand_udgarray"
    /\ \E o \in {ExpandUdgarrayDirect(<<"grid">>, 0, 1, last.p, <<>>)} :
        /\ frames' = o.frames
        /\ files' = o.files
        /\ last' = [op |-> "grid", p |-> last.p, exc |-> o.exc, msg |-> o.msg,
                    rep |-> o.rep, calls |-> o.calls, sent |-> o.sent]
    /\ UNCHANGED <<snapvars, cfgvars, expvars, tilevars>>

InitGrid ==
    /\ InitWriter /\ NoTiles
    /\ last \in [op : {"call"}, fn : {"expand_udgarray"}, p : GridInputs]

NextGrid == ExpandGrid

SpecGrid == InitGrid /\ [][NextGrid]_vars

----------------------------------------------------------------------------
(* Tiles: Udg.flip and Udg.rotate called on a tile and on a copy of it *)

\* Udg.copy
UdgCopy(udg) ==
    IF udg.mask # None THEN Udg(udg.attr, udg.data, udg.mask)
    ELSE Udg(udg.attr, udg.data, None)

\* the sampled tiles: without a mask, with a mask, with a mask of zeros
TileSamples ==
    {Udg(56, <<5, 42, 79, 116, 153, 190, 227, 8>>, None),
     Udg(7, <<128, 64, 0, 0, 3, 0, 0, 1>>, <<255, 254, 0, 0, 0, 16, 0, 0>>),
     Udg(0, <<1, 2, 4, 8, 16, 32, 64, 128>>, <<240, 15, 1, 2, 3, 4, 5, 6>>),
     Udg(66, <<200, 1, 0, 0, 0, 0, 0, 0>>, <<0, 0, 0, 0, 0, 0, 0, 0>>)}

\* the sampled method calls
FlipCall(m) == [fn |-> "flip", arg |-> m]
RotateCall(n) == [fn |-> "rotate", arg |-> n]
TileCalls == {FlipCall(m) : m \in 0..3} \cup {RotateCall(n) : n \in 0..MaxRotate}

\* udg.flip(arg) or udg.rotate(arg)
CallOn(udg, call) ==
    IF call.fn = "flip" THEN UdgFlip(udg, call.arg) ELSE UdgRotate(udg, call.arg)

\* a method call on the tile, the second at most
CallTile(call) ==
    /\ tiles # <<>> /\ Len(called[1]) < 2
    /\ tiles' = [tiles EXCEPT ![1] = CallOn(tiles[1], call)]
    /\ called' = [called EXCEPT ![1] = Append(called[1], call)]
    /\ UNCHANGED <<snapvars, last, imgvars, cfgvars, expvars>>

\* the one method call on the copy
CallCopy(call) ==
    /\ tiles # <<>> /\ called[2] = <<>>
    /\ tiles' = [tiles EXCEPT ![2] = CallOn(tiles[2], call)]
    /\ called' = [called EXCEPT ![2] = <<call>>]
    /\ UNCHANGED <<snapvars, last, imgvars, cfgvars, expvars>>

InitTiles ==
    /\ InitWriter /\ last = NoOp
    /\ \E udg \in TileSamples : tiles = <<udg, UdgCopy(udg)>>
    /\ called = <<<<>>, <<>>>>

NextTiles ==
    \/ \E call \in TileCalls : CallTile(call)
    \/ \E call \in TileCalls : CallCopy(call)

SpecTiles == InitTiles /\ [][NextTiles]_vars

----------------------------------------------------------------------------
(* The byte flip table *)

\* the lookup FLIP[i] of Udg.flip
FlipLookup ==
    /\ last.op = "call" /\ last.fn = "FLIP"
    /\ last' = [op |-> "flipped", i |-> last.i, value |-> FLIP[last.i + 1],
                size |-> Len(FLIP)]
    /\ UNCHANGED <<snapvars, imgvars, cfgvars, expvars, tilevars>>

InitFlip ==
    /\ InitWriter /\ NoTiles
    /\ last \in [op : {"call"}, fn : {"FLIP"}, i : 0..255]

NextFlip == FlipLookup

SpecFlip == InitFlip /\ [][NextFlip]_vars

----------------------------------------------------------------------------
(* Whole-grid rotation *)

\* the sampled grids of tiles: every grid of one or two rows and one or two
\* columns, and one grid each of 2 x 3 and 3 x 2 tiles
TileWithAttr(attr) == CHOOSE udg \in TileSamples : udg.attr = attr

RotateGrids ==
    UNION {[1..R -> [1..C -> TileSamples]] : R \in 1..2, C \in 1..2}
    \cup {<<<<TileWithAttr(56), TileWithAttr(7), TileWithAttr(0)>>,
            <<TileWithAttr(66), TileWithAttr(56), TileWithAttr(0)>>>>,
          <<<<TileWithAttr(0), TileWithAttr(7)>>,
            <<TileWithAttr(66), TileWithAttr(56)>>,
            <<TileWithAttr(7), TileWithAttr(7)>>>>}

\* the call rotate_udgs(udgs, rotate): udgs[:] is what the list holds after it
RotateUdgs ==
    /\ last.op = "call" /\ last.fn = "rotate_udgs"
    /\ last' = [op |-> "rotated", udgs |-> last.udgs, rotate |-> last.rotate,
                result |-> rotate_udgs(last.udgs, last.rotate)]
    /\ UNCHANGED <<snapvars, imgvars, cfgvars, expvars, tilevars>>

InitRotate ==
    /\ InitWriter /\ NoTiles
    /\ last \in [op : {"call"}, fn : {"rotate_udgs"}, udgs : RotateGrids,
                 rotate : 0..MaxRotate]

NextRotate == RotateUdgs

SpecRotate == InitRotate /\ [][NextRotate]_vars

----------------------------------------------------------------------------
(* Claims about expand *)

\* a '#' followed by an uppercase letter at place i of txt (0-based)
TokenAt(txt, i) ==
    i >= 0 /\ i + 2 <= Len(txt) /\ txt[i + 1] = "#" /\ IsUpper(txt[i + 2])

HasToken(txt) == \E i \in 0..(Len(txt) - 2) : TokenAt(txt, i)

FirstToken(txt) ==
    CHOOSE i \in 0..(Len(txt) - 2) :
        TokenAt(txt, i) /\ \A j \in 0..(i - 1) : ~TokenAt(txt, j)

\* the '#' at place i with every uppercase letter that follows it
RECURSIVE NameFrom(_, _)
NameFrom(txt, k) ==
    IF k < Len(txt) /\ IsUpper(txt[k + 1])
    THEN <<txt[k + 1]>> \o NameFrom(txt, k + 1)
    ELSE <<>>

NameAt(txt, i) == <<"#">> \o NameFrom(txt, i + 1)

UnknownTokens(txt) ==
    {NameAt(txt, i) : i \in {j \in 0..(Len(txt) - 2) : TokenAt(txt, j)}}
        \ Markers

UnknownMacroError(name) ==
    [type |-> "SkoolParsingError", msg |-> <<"Found unknown macro: ">> \o name]

Finished == pc = "returned" \/ pc = "raised"

\* C1 as stated: a text that contains a token whose name is not in the macro
\* table, anywhere in it, makes expand raise the unknown-macro error with that
\* name
C1_AnyUnknownTokenRaises ==
    (Finished /\ UnknownTokens(input) # {}) =>
        /\ pc = "raised"
        /\ \E name \in UnknownTokens(input) : err = UnknownMacroError(name)

\* C1: a pass of expand whose leftmost token has a name that is not in the
\* macro table raises the unknown-macro error with exactly that name, and the
\* text is not changed or returned
C1_UnknownMacroRaises ==
    [][(pc = "loop" /\ HasToken(text)
            /\ NameAt(text, FirstToken(text)) \notin Markers)
        => /\ pc' = "raised"
           /\ err' = UnknownMacroError(NameAt(text, FirstToken(text)))
           /\ text' = text]_vars

C1_Witness ==
    /\ pc = "raised" /\ last.op = "unknown"
    /\ err = UnknownMacroError(<<"#", "X">>)
    /\ text # input

\* C2: the text expand returns holds no '#' followed by an uppercase letter
C2_ReturnedTextHasNoToken == pc = "returned" => ~HasToken(text)

C2_Witness == pc = "returned" /\ HasToken(input) /\ text # input /\ text # <<>>

\* C3: every pass works on the leftmost token of the whole buffer, and after a
\* replacement that holds a token the leftmost token of the new buffer is not
\* to the right of that token, so it is processed before anything after it
C3_LeftmostFirst ==
    /\ last.op \in {"dispatch", "unknown"} =>
        /\ TokenAt(last.before, last.start)
        /\ \A i \in 0..(last.start - 1) : ~TokenAt(last.before, i)
    /\ (last.op = "dispatch" /\ last.exc = "none" /\ HasToken(last.rep)) =>
        /\ pc = "loop"
        /\ HasToken(text)
        /\ FirstToken(text) <= last.start + FirstToken(last.rep)

C3_Witness ==
    /\ last.op = "dispatch" /\ last.exc = "none" /\ pc = "loop"
    /\ HasToken(last.rep)
    /\ HasToken(Slice(last.before, last.end, Len(last.before)))

\* the text after one pass with a handler that returns
Expands(txt) ==
    /\ Starts(txt) # {}
    /\ Slice(txt, MatchStart(txt), MatchEnd(txt)) \in Markers
    /\ Repf(Slice(txt, MatchStart(txt), MatchEnd(txt)), txt, MatchEnd(txt),
            ExpandCwd).exc = "none"

StepText(txt) ==
    LET o == Repf(Slice(txt, MatchStart(txt), MatchEnd(txt)), txt,
                  MatchEnd(txt), ExpandCwd)
    IN Splice(txt, MatchStart(txt), o.rep, o.end)

\* the passes bring txt back: a handler reproduces its own token, directly or
\* through one other macro
OnCycle(txt) ==
    /\ Expands(txt)
    /\ \/ StepText(txt) = txt
       \/ Expands(StepText(txt)) /\ StepText(StepText(txt)) = txt

\* C4: while the replacements reproduce the token, expand stays in its loop:
\* it neither returns nor raises
C4_SelfReproducingLoops ==
    [][(pc = "loop" /\ OnCycle(text)) => (pc' = "loop" /\ OnCycle(text'))]_vars

C4_Witness == pc = "loop" /\ OnCycle(text) /\ passes = MaxPasses

C6_EveryErrorAnnotated ==
    (last.op = "dispatch" /\ last.exc # "none") =>
        /\ pc = "raised"
        /\ err.type = "SkoolParsingError"
        /\ Contains(err.msg, last.marker)

----------------------------------------------------------------------------
(* Claims about the snapshot stack *)

\* C7: after any sequence of push_snapshot and pop_snapshot calls the stack
\* holds at least one entry: the base entry is never popped
C7_BaseEntryKept == Len(_snapshots) >= 1

\* C8: a pop that matches a push restores the contents the current snapshot
\* had at that push, and get_snapshot_name is then the name given by the
\* innermost push still open, '' when none is open
C8_PopRestores ==
    (last.op = "pop" /\ last.exc = "none" /\ last.matched)
        => /\ heap[snapshot] = last.data
           /\ get_snapshot_name = last.name

\* C9: a poke into the current snapshot changes the contents of no entry
\* held on the stack, the base entry included
C9_PokeLeavesStack ==
    last.op = "poke"
        => \A i \in 1..Len(_snapshots) : heap[_snapshots[i][1]] = last.saved[i]

----------------------------------------------------------------------------
(* Claims about the image files *)

\* the still-image name of an invocation: the part before '*' in the direct
\* form, the whole name in the frames form
StillName(span) ==
    IF span \in DirectSpans THEN Partition(ParseUdgarray(span).fname, "*")[1]
    ELSE ParseFrames(span).fname

\* C10: a #UDGARRAY invocation that names a still-image file calls the image
\* encoder zero times when the file exists and images are not replaced, and
\* exactly once otherwise, after any earlier invocations; the markup it
\* returns references the image path in both cases
C10_EncoderCalls ==
    (/\ last.op = "udgarray"
     /\ StillName(last.span) # <<>>
     /\ last.exc = "none")
        => LET path == image_path(StillName(last.span), UDGImagePath).path IN
           /\ last.calls = IF replace_images \/ path \notin last.existed THEN 1 ELSE 0
           /\ Contains(last.rep, path)

\* an invocation found its file written by an earlier one (no b.gif exists
\* when the writer is made) and did not call the encoder
C10_Witness ==
    /\ last.op = "udgarray"
    /\ last.span = "1,,,,,,,2;0:8(b.gif*)"
    /\ last.exc = "none"
    /\ ~replace_images
    /\ last.calls = 0
    /\ image_path(StillName(last.span), UDGImagePath).path \in last.existed

----------------------------------------------------------------------------
(* Claims about the frame cache *)

\* the frame identifier a file name argument gives: what follows the '*',
\* the name before it when nothing follows, none without a '*'
FrameIdOf(fname) ==
    LET star == IndexOf(fname, "*") IN
    IF star = 0 THEN <<>>
    ELSE IF star = Len(fname) THEN SubSeq(fname, 1, star - 1)
    ELSE SubSeq(fname, star + 1, Len(fname))

\* the Frame a direct-form invocation builds from the current snapshot
FrameOf(span) ==
    LET p == ParseUdgarray(span)
        built == BuildUdgArray(<<<<>>>>, FALSE, heap[snapshot], p.clauses, p.width, 1)
        flipped == IF p.flip # 0 THEN flip_udgs(built.udgs, p.flip) ELSE built.udgs
        udg_array == IF p.rotate # 0 THEN rotate_udgs(flipped, p.rotate) ELSE flipped
    IN Frame(udg_array, p.scale, IF built.has_masks THEN p.mask ELSE 0,
             p.crop[1], p.crop[2], p.crop[3], p.crop[4], DefaultFrameDelay)

C12_UnknownFrameFails ==
    (/\ last.op = "udgarray" /\ last.span \in FramesSpans
     /\ ParseFrames(last.span).fname # <<>>
     /\ \E k \in 1..Len(ParseFrames(last.span).clauses) :
            LET id == ParseFrames(last.span).clauses[k].frame_id IN
            id = <<>> \/ id \notin DOMAIN last.cached)
        => last.exc = "MacroParsingError"

\* the delay the claim gives clause i: its own, else the one most recently
\* given by an earlier clause, else 32
RECURSIVE DelayOf(_, _)
DelayOf(clauses, i) ==
    IF i = 0 THEN 32
    ELSE IF clauses[i].has_delay THEN clauses[i].delay
    ELSE DelayOf(clauses, i - 1)

\* C13 as stated: a frames-form invocation that writes its file hands the
\* encoder one frame per clause, in order, the i-th being the cached Frame of
\* clause i with the delay of clause i, and the cache is left as it was
C13_FramesSent ==
    (/\ last.op = "udgarray" /\ last.span \in FramesSpans
     /\ last.exc = "none" /\ last.calls = 1)
        => LET clauses == ParseFrames(last.span).clauses IN
           /\ Len(last.sent) = Len(clauses)
           /\ \A i \in 1..Len(clauses) :
                /\ last.sent[i].delay = DelayOf(clauses, i)
                /\ [last.sent[i] EXCEPT !.delay = 0]
                     = [last.cached[clauses[i].frame_id] EXCEPT !.delay = 0]
           /\ frames = last.cached

----------------------------------------------------------------------------
(* Claims about address specifications *)

\* the text 30000-30003-2
Spec30000 == <<"3", "0", "0", "0", "0", "-", "3", "0", "0", "0", "3", "-", "2">>

\* C14 as stated: 30000-30003-2 with row width 2 gives
\* [30000, 30002, 30001, 30003]
C14_FourAddresses ==
    (last.op = "addresses" /\ last.addr_spec = Spec30000 /\ last.width = 2)
        => last.addresses = <<30000, 30002, 30001, 30003>>

\* C14: 30000-30003-2 with row width 2 gives [30000, 30002]: after the row
\* of two the cursor moves by V - (width - 1) * H = 4 - 2 to 30004, past the
\* end
C14_TwoAddresses ==
    (last.op = "addresses" /\ last.addr_spec = Spec30000 /\ last.width = 2)
        => last.exc = "none" /\ last.addresses = <<30000, 30002>>

C14_Witness ==
    last.op = "addresses" /\ last.addr_spec = Spec30000 /\ last.width = 2

\* the ascending run a, a + 1, ..., b taken n times
RunTimes(a, b, n) ==
    IF b < a THEN <<>>
    ELSE [i \in 1..(n * (b - a + 1)) |-> a + ((i - 1) % (b - a + 1))]

\* C15: for every width, A-B with default steps gives A, A+1, ..., B (nothing
\* when A > B), a bare A gives [A], and the suffix xN gives N copies
C15_DefaultSteps ==
    \A in \in {i \in AddrInputs : i.form \in {"A", "A-B"} /\ i.h = 1 /\ i.v = 1} :
        (/\ last.op = "addresses"
         /\ last.addr_spec = AddrText(in))
            => /\ last.exc = "none"
               /\ last.addresses =
                    RunTimes(in.a, IF in.form = "A" THEN in.a ELSE in.a + in.run,
                             IF in.x THEN in.n ELSE 1)

\* 30000-30002x2 with width 3
C15_Witness ==
    /\ last.op = "addresses" /\ last.width = 3
    /\ last.addr_spec = <<"3", "0", "0", "0", "0", "-", "3", "0", "0", "0", "2", "x", "2">>
    /\ last.addresses = <<30000, 30001, 30002, 30000, 30001, 30002>>

----------------------------------------------------------------------------
(* Claims about tiles *)

\* the copy is as the tile was made: nothing was called on it
Untouched == tiles # <<>> /\ called[2] = <<>>

\* flipping or rotating the tile changes it: it has no symmetry
Asymmetric(udg) ==
    \A call \in TileCalls \ {FlipCall(0), RotateCall(0), RotateCall(4)} :
        /\ CallOn(udg, call).data # udg.data
        /\ udg.mask # None /\ CallOn(udg, call).mask # udg.mask

\* C16: a tile flipped twice with the same mode 1, 2 or 3 equals the tile it
\* was (attribute, bitmap and mask), and a flip with mode 0 leaves it as it was
C16_FlipTwice ==
    Untouched =>
        /\ \A m \in 1..3 :
            called[1] = <<FlipCall(m), FlipCall(m)>> => tiles[1] = tiles[2]
        /\ called[1] = <<FlipCall(0)>> => tiles[1] = tiles[2]

C16_Witness ==
    /\ Untouched /\ called[1] = <<FlipCall(3), FlipCall(3)>>
    /\ Asymmetric(tiles[2]) /\ tiles[1] = tiles[2]

\* C17: rotate(4) leaves a tile as it was, rotate(n) gives what rotate(n mod 4)
\* gives, two rotations by 1 give what one by 2 gives, and four single
\* rotations (2 + 2, 1 + 3, 3 + 1) give the tile back
C17_RotateModFour ==
    tiles # <<>> =>
        /\ (called[1] = <<RotateCall(4)>> /\ called[2] = <<>>) => tiles[1] = tiles[2]
        /\ \A n \in 0..MaxRotate :
            (called[1] = <<RotateCall(n)>> /\ called[2] = <<RotateCall(n % 4)>>)
                => tiles[1] = tiles[2]
        /\ (called[1] = <<RotateCall(1), RotateCall(1)>> /\ called[2] = <<RotateCall(2)>>)
                => tiles[1] = tiles[2]
        /\ \A n \in 1..3 :
            (called[1] = <<RotateCall(n), RotateCall(4 - n)>> /\ called[2] = <<>>)
                => tiles[1] = tiles[2]

C17_Witness ==
    /\ tiles # <<>>
    /\ called[1] = <<RotateCall(5)>> /\ called[2] = <<RotateCall(1)>>
    /\ tiles[1] = tiles[2] /\ tiles[1].mask # None
    /\ \E udg \in TileSamples : Asymmetric(udg) /\ tiles[2] = UdgRotate(udg, 1)

\* C18: rotate(2) on a tile gives the tile that flip(3) gives
C18_HalfTurnIsFlipBoth ==
    (tiles # <<>> /\ called[1] = <<RotateCall(2)>> /\ called[2] = <<FlipCall(3)>>)
        => tiles[1] = tiles[2]

C18_Witness ==
    /\ tiles # <<>>
    /\ called[1] = <<RotateCall(2)>> /\ called[2] = <<FlipCall(3)>>
    /\ tiles[1] = tiles[2] /\ tiles[1].mask # None
    /\ \E udg \in TileSamples : Asymmetric(udg) /\ tiles[2] = UdgFlip(udg, 3)

\* the pixel at row r (0 at the top) and column c (0 at the left, bit 128)
Pixel(bytes, r, c) == BitSet(bytes[r + 1], Pow2(7 - c))

\* bytes is from turned by a quarter clockwise
QuarterTurn(bytes, from) ==
    /\ Len(bytes) = 8
    /\ \A r \in 0..7 : bytes[r + 1] \in 0..255
    /\ \A r \in 0..7, c \in 0..7 : Pixel(bytes, r, c) = Pixel(from, 7 - c, r)

\* C19: after rotate(1) the pixel at (r, c) of the bitmap is the pixel that
\* was at (7 - c, r), the mask, when there is one, is turned the same way,
\* and the attribute is kept
C19_QuarterTurnClockwise ==
    (Untouched /\ called[1] = <<RotateCall(1)>>)
        => /\ tiles[1].attr = tiles[2].attr
           /\ QuarterTurn(tiles[1].data, tiles[2].data)
           /\ IF tiles[2].mask = None THEN tiles[1].mask = None
              ELSE QuarterTurn(tiles[1].mask, tiles[2].mask)

C19_Witness ==
    /\ Untouched /\ called[1] = <<RotateCall(1)>>
    /\ Asymmetric(tiles[2])
    /\ Pixel(tiles[2].data, 0, 0) /\ Pixel(tiles[1].data, 0, 7)
    /\ ~Pixel(tiles[2].data, 0, 7) /\ ~Pixel(tiles[1].data, 0, 0)

----------------------------------------------------------------------------
(* Claims about the flip table *)

\* C20: the table has 256 entries, and for every i in 0..255 FLIP[i] is in
\* 0..255, has bit k set exactly when i has bit 7 - k set, and FLIP[FLIP[i]]
\* is i
C20_FlipIsBitReversal ==
    last.op = "flipped" =>
        /\ last.size = 256
        /\ last.value \in 0..255
        /\ \A k \in 0..7 :
            BitSet(last.value, Pow2(k)) <=> BitSet(last.i, Pow2(7 - k))
        /\ FLIP[last.value + 1] = last.i

\* the lookup of 1 gave 128 and the one of 254 gave 127
C20_Witness ==
    /\ last.op = "flipped"
    /\ last.i \in {1, 254}
    /\ last.value = IF last.i = 1 THEN 128 ELSE 127

----------------------------------------------------------------------------
(* Claims about the tile grid *)

\* the tiles of a grid, row after row
RECURSIVE Flatten(_)
Flatten(rows) == IF rows = <<>> THEN <<>> ELSE Head(rows) \o Flatten(Tail(rows))

\* the bitmaps the clauses name, clause after clause and address after
\* address: every byte is the snapshot byte plus the increment, mod 256
RECURSIVE Bitmaps(_, _)
Bitmaps(clauses, snap) ==
    IF clauses = <<>> THEN <<>>
    ELSE LET c == Head(clauses)
             run == RunTimes(c.address.elements[1], c.address.elements[2], 1)
         IN [i \in 1..Len(run) |->
                [n \in 1..8 |-> (snap[run[i] + n - 1] + c.inc) % 256]]
            \o Bitmaps(Tail(clauses), snap)

\* the grid the invocation handed to the image writer
GridSent == last.sent[1].udgs

GridBuilt == last.op = "grid" /\ last.exc = "none" /\ last.calls = 1

\* the tiles are in the order of the clauses' addresses, with the bytes of
\* the snapshot plus the increment
RowMajor ==
    LET tls == Flatten(GridSent) IN
    [i \in 1..Len(tls) |-> tls[i].data] = Bitmaps(last.p.clauses, heap[snapshot])

\* C21 as stated: the grid is rectangular for every width and every number of
\* addresses (all rows, the last included, hold the same number of tiles),
\* and the tiles are row-major in the order of the addresses with bytes
\* (snapshot byte + increment) mod 256
C21_GridRectangular ==
    GridBuilt =>
        /\ \A r \in 1..Len(GridSent) : Len(GridSent[r]) = Len(GridSent[1])
        /\ RowMajor

----------------------------------------------------------------------------
(* Claims about the mask type *)

\* C27 as stated: the mask type of the frame and of the image is 0 exactly
\* when no clause gave a mask address range, and the requested one when some
\* clause, in any position, gave one
C27_MaskTypeKept ==
    GridBuilt =>
        LET masked == \E k \in 1..Len(last.p.clauses) :
                        /\ last.p.clauses[k].has_mask
                        /\ _get_udg_addresses(last.p.clauses[k].mask_addr,
                                              last.p.width) # <<>>
            mask_type == IF masked THEN last.p.mask ELSE 0
        IN /\ last.sent[1].mask = mask_type
           /\ frames[<<"f">>].mask = mask_type

----------------------------------------------------------------------------
(* Claims about frames *)

\* the size the claim gives a frame: min(requested, full - offset), and
\* full - offset when nothing is requested
ClaimedSize(requested, given, full, offset) ==
    IF given THEN Min(requested, full - offset) ELSE full - offset

----------------------------------------------------------------------------
(* Claims about image paths *)

\* the name with the default format's extension, unless it ends in .png or
\* .gif already (in any case of the letters)
WithExtension(fname) ==
    IF \E ext \in {PNG, GIF} :
          /\ Len(fname) >= 4
          /\ ToLower(SubSeq(fname, Len(fname) - 3, Len(fname))) = ext
    THEN fname
    ELSE fname \o <<".">> \o default_image_format

----------------------------------------------------------------------------
(* Claims about #R *)

\* the target of the invocation cannot be resolved: no entry holds the
\* address, or the identifier given has no code path
Unresolvable(p) ==
    \/ Containers(p.address, p.code_id) = {}
    \/ p.code_id # <<>> /\ get_code_path(p.code_id) = None

\* C24 as stated: #R raises a parse error that names the address or the
\* identifier whenever no entry holds the address or the identifier has no
\* code path, with or without an identifier; when it returns, the link has
\* the anchor '#address' exactly when the address is not the first address of
\* the entry that holds it
C24_UnresolvableFails ==
    last.op = "r" =>
        /\ Unresolvable(last.p) =>
            /\ last.exc = "MacroParsingError"
            /\ \/ Contains(last.msg, Decimal(last.p.address))
               \/ last.p.code_id # <<>> /\ Contains(last.msg, last.p.code_id)
        /\ (last.exc = "none" /\ Containers(last.p.address, last.p.code_id) # {}) =>
            (last.anchor = <<"#">> \o Decimal(last.p.address)
                <=> \E e \in Containers(last.p.address, last.p.code_id) :
                        e.address # last.p.address)

----------------------------------------------------------------------------
(* Claims about the termination of expand *)

\* the splices made so far: the passes, less the pass that raised
Splices == IF pc = "raised" THEN passes - 1 ELSE passes

\* C25: on a text whose handlers return an end index behind the token's
\* start and a replacement without '#', every splice takes a '#' out of the
\* text, the splices are never more than the '#' characters of the input,
\* and expand comes to an end
C25_TameExpandTerminates ==
    /\ [](Splices + Hashes(text) <= Hashes(input))
    /\ <>Finished

\* two macros expanded in two splices, then the text returned
C25_Witness ==
    /\ pc = "returned"
    /\ Hashes(input) = 2 /\ passes = 2 /\ Hashes(text) = 0

----------------------------------------------------------------------------
(* Claims about the termination of the address loop *)

\* C26: address-range expansion comes to an end with a list of addresses for
\* every specification of non-negative integers and every width from 1 on:
\* the cursor gets past the end address
C26_AddressExpansionTerminates ==
    <>(last.op = "addresses" /\ last.exc = "none")

----------------------------------------------------------------------------
(* Claims about the effects of a failed expansion *)

\* C28: expand rolls nothing back: in the step in which a macro fails, the
\* current snapshot, the stack of snapshots and their buffers stay as the
\* macros expanded before left them, every frame of the cache stays in the
\* cache and every image file written stays written
C28_NoRollback ==
    [][pc' = "raised" =>
          /\ heap' = heap /\ snapshot' = snapshot /\ _snapshots' = _snapshots
          /\ \A k \in DOMAIN frames : k \in DOMAIN frames' /\ frames'[k] = frames[k]
          /\ files \subseteq files']_vars

\* '#POKES0,255#UDGARRAY1;8(*f)#X': the unknown macro is reported, the poke
\* and the frame of the two macros before it are still there
C28_Witness ==
    /\ pc = "raised" /\ passes = 3
    /\ heap[snapshot][0] = 255 /\ heap[snapshot] # ParserSnapshot
    /\ DOMAIN frames = {<<"f">>}

----------------------------------------------------------------------------
(* Claims about the macro name *)

\* the names _create_macros registers: '#' and the capitals of what follows
\* 'expand_' in a method name made of 'expand_' and lowercase letters only
Registered(marker) ==
    \E name \in Methods :
        /\ Len(name) = Len(marker) + 6
        /\ SubSeq(name, 1, 7) = <<"e", "x", "p", "a", "n", "d", "_">>
        /\ \A k \in 8..Len(name) : IsLower(name[k])
        /\ marker = <<"#">> \o [k \in 1..(Len(name) - 7) |-> UpperChar(name[k + 7])]

\* a registered name that the text goes on after with a capital
ShorterRegistered(marker) ==
    \E e \in 2..(Len(marker) - 1) : Registered(SubSeq(marker, 1, e))

\* C29: the macro name is '#' and all the capitals that follow it, and the
\* handler is called exactly when that whole name is registered: a name that
\* goes on after a registered name is an unknown macro, or the longer
\* registered macro, never the shorter one
C29_MaximalNameExactLookup ==
    last.op \in {"dispatch", "unknown"} =>
        LET m == last.marker
            t == last.before
            e == last.start + Len(m)
        IN /\ Len(m) >= 2 /\ m = Slice(t, last.start, e) /\ m[1] = "#"
           /\ \A k \in 2..Len(m) : IsUpper(m[k])
           /\ e = Len(t) \/ ~IsUpper(At(t, e))
           /\ (last.op = "dispatch") <=> Registered(m)
           /\ last.op = "dispatch" => last.index = e
           /\ last.op = "unknown" => pc = "raised" /\ err = UnknownMacro(m)

\* '#REGBC' is reported as the unknown macro #REGBC although #REG is registered
C29_Witness ==
    /\ last.op = "unknown"
    /\ last.marker = REG \o <<"B", "C">>
    /\ ShorterRegistered(last.marker)
    /\ err = UnknownMacro(REG \o <<"B", "C">>)

----------------------------------------------------------------------------
(* Claims about the rotation of a grid *)

\* the picture a grid of tiles makes: its height and width in pixels, and
\* the pixel at row y and column x
PictureOf(udgs) ==
    [h |-> 8 * Len(udgs), w |-> 8 * Len(udgs[1]),
     px |-> [y \in 0..(8 * Len(udgs) - 1), x \in 0..(8 * Len(udgs[1]) - 1) |->
                Pixel(udgs[(y \div 8) + 1][(x \div 8) + 1].data, y % 8, x % 8)]]

\* a picture turned by a quarter clockwise
TurnPicture(p) ==
    [h |-> p.w, w |-> p.h,
     px |-> [y \in 0..(p.w - 1), x \in 0..(p.h - 1) |-> p.px[p.h - 1 - x, y]]]

RECURSIVE TurnPictureBy(_, _)
TurnPictureBy(p, n) == IF n = 0 THEN p ELSE TurnPictureBy(TurnPicture(p), n - 1)

\* C30: rotate_udgs with n mod 4 = 1 makes of an R x C grid a C x R grid
\* whose row i is the tiles of the old positions (R-1, i), ..., (0, i), each
\* turned once; the picture of the result of rotate_udgs(n) is the picture of
\* the grid turned n mod 4 quarters clockwise, and n mod 4 = 0 leaves the
\* grid as it is
C30_GridRotationTurnsPicture ==
    last.op = "rotated" =>
        LET g == last.udgs
            out == last.result
            R == Len(g)
            C == Len(g[1])
        IN /\ PictureOf(out) = TurnPictureBy(PictureOf(g), last.rotate % 4)
           /\ last.rotate % 4 = 1 =>
                 /\ Len(out) = C
                 /\ \A i \in 1..C :
                       /\ Len(out[i]) = R
                       /\ \A j \in 1..R : out[i][j] = UdgRotate(g[R + 1 - j][i], 1)
           /\ last.rotate % 4 = 0 => out = g
           /\ \A r \in 1..Len(out) : \A c \in 1..Len(out[r]) :
                 \E gr \in 1..R, gc \in 1..C : out[r][c].attr = g[gr][gc].attr

\* a grid of 2 x 3 tiles turned once: 3 rows of 2 tiles, a picture of 24 x 16
\* pixels that is no longer the picture it was
C30_Witness ==
    /\ last.op = "rotated" /\ last.rotate = 5
    /\ Len(last.udgs) = 2 /\ Len(last.udgs[1]) = 3
    /\ Len(last.result) = 3 /\ Len(last.result[1]) = 2
    /\ PictureOf(last.result).h = 24 /\ PictureOf(last.result).w = 16
    /\ last.result[1][1] = UdgRotate(last.udgs[2][1], 1)
    /\ last.result[1][1] # last.udgs[2][1]

====
